---- MODULE Spec2Model ----
(***************************************************************************)
(* The agent session lifecycle of email-agent: init_agent, invoke_agent    *)
(* and shutdown_agent, in the two implementations the repository ships:    *)
(*   "gradio"  src/gradio-app/src/agent/agent.py  (background session task)*)
(*   "src"     src/src/agent/agent.py             (session owned by caller)*)
(* Callers are asyncio tasks; a step of the model is the code one task     *)
(* runs between two suspension points (await).                             *)
(* TurnSpec follows one call of the UI callback respond() of               *)
(* src/gradio-app/src/start_gradio.py; OrderSpec follows save_order and    *)
(* verify_order of src/src/tools/save_order.py.                            *)
(***************************************************************************)
EXTENDS Integers, Sequences, FiniteSets, Bags, TLC

\* ---- bounds ----
NumCallers == 2
MaxTasks == 2
MaxCloseCalls == 2

Tasks == 1..MaxTasks

\* ---- program constants ----
None == 0
CERM_MCP_SERVER_NAME == "cerm_mcp"
CERM_AZURE_SERVER_NAME == "cerm_azure"
\* a further server that AGENT_MCP_URLS may name
EXTRA_SERVER_NAME == "extra"
Impls == {"gradio", "src"}

\* mcp_client.session(name) made in the k-th init attempt; the same number
\* names the context manager and the session handle it yields.
Ctx(k, name) == IF name = CERM_MCP_SERVER_NAME THEN 2 * k - 1 ELSE 2 * k
Handles == 1..(2 * MaxTasks)
ServerOf(h) == IF h % 2 = 1 THEN CERM_MCP_SERVER_NAME ELSE CERM_AZURE_SERVER_NAME
AttemptOf(h) == (h + 1) \div 2

\* the connections of mcp_client, in configured order: gradio-app builds
\* them from AGENT_MCP_URLS (one, two or more servers), src/src/agent
\* configures the first server only
ConnectionChoices(i) ==
  IF i = "gradio"
    THEN {<<CERM_MCP_SERVER_NAME, CERM_AZURE_SERVER_NAME>>,
          <<CERM_MCP_SERVER_NAME, CERM_AZURE_SERVER_NAME, EXTRA_SERVER_NAME>>,
          <<CERM_MCP_SERVER_NAME>>}
    ELSE {<<CERM_MCP_SERVER_NAME>>}

\* what load_mcp_tools returns for each server: the servers expose tools
\* (the first [x], the second [y, z], a further one [w]) or none at all
ToolChoices(i) ==
  IF i = "gradio"
    THEN {(CERM_MCP_SERVER_NAME :> <<"x">> @@ CERM_AZURE_SERVER_NAME :> <<"y", "z">>
             @@ EXTRA_SERVER_NAME :> <<"w">>),
          (CERM_MCP_SERVER_NAME :> <<>> @@ CERM_AZURE_SERVER_NAME :> <<>>
             @@ EXTRA_SERVER_NAME :> <<>>)}
    ELSE {(CERM_MCP_SERVER_NAME :> <<"x">> @@ CERM_AZURE_SERVER_NAME :> <<>>
             @@ EXTRA_SERVER_NAME :> <<>>),
          (CERM_MCP_SERVER_NAME :> <<>> @@ CERM_AZURE_SERVER_NAME :> <<>>
             @@ EXTRA_SERVER_NAME :> <<>>)}

\* an agent is known by the init attempt during which it was built and by
\* the catalog it was built from
NoAgent == [id |-> None, tools |-> <<>>]
create_agent(n, ts) == [id |-> n, tools |-> ts]

VARIABLES
  impl,              \* which implementation is running
  connections,       \* mcp_client.connections: the configured server names
  server_tools,      \* server name -> tool descriptors it exposes
  mcp_session,       \* _mcp_session
  mcp_session_ctx,   \* _mcp_session_ctx
  mcp_session_task,  \* _mcp_session_task (gradio only)
  mcp_session_stop,  \* _mcp_session_stop (gradio only): the Event of attempt k
  tools,             \* tools
  agent,             \* agent
  eventSet,          \* Events on which set() was called
  sess,              \* handle -> "none" | "open" | "closed"
  closeCalls,        \* handle -> number of __aexit__ calls on its context
  opener,            \* handle -> the task that called __aenter__ on its context
  exit_call,         \* the __aexit__ call made by the last step, if any
  nTasks,            \* init attempts started so far
  rpc,               \* session_runner task -> position
  rexc,              \* session_runner task -> an exception is propagating
  rarg,              \* session_runner task -> _mcp_session read at line 111
  tools_local,       \* session_runner task -> tools_local
  rwait,             \* session_runner task -> Event it waits on
  calls,             \* bag of the suspended calls of the caller tasks
  lastEvent,         \* the call, return or raise made by the last step
  turn,              \* one call of the UI callback respond(): its locals
  orders,            \* the orders directory and the save_order calls made
  config,            \* AppConfig: the setting read and the value computed
  loader,            \* one call of load_tools(): its position and sessions
  auth,              \* m365_mcp.auth: the caches, the files and the call made
  classifier         \* one call of classify_message(): input, model, result

coord == <<mcp_session, mcp_session_ctx, mcp_session_task, mcp_session_stop, tools, agent>>
env == <<eventSet, sess, closeCalls>>
issued == <<opener, exit_call>>
runner == <<rpc, rexc, rarg, tools_local, rwait>>
lifecycle == <<impl, connections, server_tools, coord, env, issued, nTasks, runner, calls, lastEvent>>
\* the state of the UI callback and of the order store, which the lifecycle
\* operations never touch
apart == <<config, loader, auth, classifier>>
outside == <<turn, orders, apart>>
vars == <<lifecycle, outside>>

\* the tasks that enter and exit session contexts: the session_runner task
\* of attempt r; the caller task that made the k-th call of init_agent; a
\* caller task other than the one that opened the handle at hand
NoTask == [kind |-> "none", n |-> 0]
Runner(r) == [kind |-> "session_runner", n |-> r]
InitCaller(k) == [kind |-> "caller", n |-> k]
OtherCaller == [kind |-> "caller", n |-> 0]
\* ctx.__aexit__ called on the context of handle h by task `who`
NoExit == [h |-> None, by |-> NoTask]
ExitCall(h, who) == [h |-> h, by |-> who]

Ev(op, outcome) == [op |-> op, outcome |-> outcome]
TaskEv == Ev("task", "step")

\* a call suspended at position pc, holding the task it awaits or the
\* context it entered in loc
At(pc, loc) == [pc |-> pc, loc |-> loc]
Suspended == BagToSet(calls)
Suspend(p) == calls (+) SetToBag({p})
Resume(p) == calls (-) SetToBag({p})
\* caller tasks are interchangeable; at most NumCallers calls overlap
CanCall == BagCardinality(calls) < NumCallers

AtImport ==
  /\ impl \in Impls
  /\ connections \in ConnectionChoices(impl)
  /\ server_tools \in ToolChoices(impl)
  /\ mcp_session = None
  /\ mcp_session_ctx = None
  /\ mcp_session_task = None
  /\ mcp_session_stop = None
  /\ tools = <<>>
  /\ agent = NoAgent
  /\ eventSet = {}
  /\ sess = [h \in Handles |-> "none"]
  /\ closeCalls = [h \in Handles |-> 0]
  /\ opener = [h \in Handles |-> NoTask]
  /\ exit_call = NoExit
  /\ nTasks = 0
  /\ rpc = [r \in Tasks |-> "none"]
  /\ rexc = [r \in Tasks |-> FALSE]
  /\ rarg = [r \in Tasks |-> None]
  /\ tools_local = [r \in Tasks |-> <<>>]
  /\ rwait = [r \in Tasks |-> None]
  /\ calls = EmptyBag
  /\ lastEvent = Ev("none", "none")

\* no respond() call under way, and an orders directory nobody has used
NoTurn == [pc |-> "none"]
NoOrders ==
  [files |-> <<>>, clock |-> 0, saved |-> <<>>, confirmations |-> <<>>,
   asked |-> "", verified |-> FALSE, last |-> "none"]

\* no call of the stand-alone functions under way
NoCall == [pc |-> "none"]

NoCalls ==
  /\ config = NoCall
  /\ loader = NoCall
  /\ auth = NoCall
  /\ classifier = NoCall

Init ==
  /\ AtImport
  /\ turn = NoTurn
  /\ orders = NoOrders
  /\ NoCalls

\* ---- state abstraction of the spec, read off the module globals ----
\* the state at import (lines 73-79) and the one shutdown_agent establishes
Uninitialized ==
  /\ mcp_session = None
  /\ mcp_session_ctx = None
  /\ mcp_session_task = None
  /\ mcp_session_stop = None
  /\ tools = <<>>
  /\ agent = NoAgent
StopSignalled == mcp_session_stop # None /\ mcp_session_stop \in eventSet
Stopping == impl = "gradio" /\ mcp_session_task # None /\ StopSignalled
Ready ==
  /\ agent # NoAgent
  /\ IF impl = "gradio" THEN mcp_session_task # None /\ ~StopSignalled
                        ELSE mcp_session_ctx # None
Starting ==
  /\ agent = NoAgent
  /\ IF impl = "gradio" THEN mcp_session_task # None /\ ~StopSignalled
                        ELSE mcp_session_ctx # None

\* mcp_client.session(name).__aenter__() returns or raises; it raises for a
\* name that is not among the connections
Configured == {connections[i] : i \in DOMAIN connections}
OpenOutcomes(name) == IF name \in Configured THEN BOOLEAN ELSE {FALSE}

OpenSessions(name) == {h \in Handles : sess[h] = "open" /\ ServerOf(h) = name}

\* ---- src/gradio-app/src/agent/agent.py ----

\* lines 126-136 of init_agent, entered at the first loop (from_tools = FALSE)
\* or resumed inside the second one (from_tools = TRUE); rest is the bag of
\* the other suspended calls, n the number of init attempts started so far
InitPolling(rest, from_tools, n) ==
  IF ~from_tools /\ mcp_session = None
    THEN /\ calls' = rest (+) SetToBag({At("poll_session", None)})
         /\ lastEvent' = Ev("init", "polling")
         /\ UNCHANGED agent
    ELSE IF tools = <<>>
      THEN /\ calls' = rest (+) SetToBag({At("poll_tools", None)})
           /\ lastEvent' = Ev("init", "polling")
           /\ UNCHANGED agent
      ELSE /\ agent' = create_agent(n, tools)
           /\ calls' = rest
           /\ lastEvent' = Ev("init", "ok")

\* init_agent up to its first suspension
G_InitCall ==
  /\ impl = "gradio"
  /\ CanCall
  /\ IF mcp_session_task # None
       THEN /\ lastEvent' = Ev("init", "already")
            /\ UNCHANGED <<coord, nTasks, rpc, calls>>
       ELSE /\ nTasks < MaxTasks
            /\ nTasks' = nTasks + 1
            /\ mcp_session_stop' = nTasks + 1
            /\ mcp_session_task' = nTasks + 1
            /\ rpc' = [rpc EXCEPT ![nTasks + 1] = "created"]
            /\ InitPolling(calls, FALSE, nTasks + 1)
            /\ UNCHANGED <<mcp_session, mcp_session_ctx, tools>>
  /\ exit_call' = NoExit /\ UNCHANGED <<outside, impl, connections, server_tools, opener, env, rexc, rarg, tools_local, rwait>>

\* init_agent waking from asyncio.sleep(0.01) with its loop condition false
G_InitPoll(p) ==
  /\ impl = "gradio"
  /\ p \in Suspended
  /\ \/ p.pc = "poll_session" /\ mcp_session # None /\ InitPolling(Resume(p), FALSE, nTasks)
     \/ p.pc = "poll_tools" /\ tools # <<>> /\ InitPolling(Resume(p), TRUE, nTasks)
  /\ exit_call' = NoExit /\ UNCHANGED <<outside, impl, connections, server_tools, opener, mcp_session, mcp_session_ctx, mcp_session_task,
                 mcp_session_stop, tools, env, nTasks, runner>>

\* lines 154-158 without line 159: the catalog of the ended lifecycle stays
ShutdownFinish_KeepsCatalog(t) ==
  IF rpc[t] = "failed"
    THEN /\ lastEvent' = Ev("shutdown", "raised")
         /\ UNCHANGED coord
    ELSE /\ mcp_session_task' = None
         /\ mcp_session_stop' = None
         /\ mcp_session_ctx' = None
         /\ mcp_session' = None
         /\ agent' = NoAgent
         /\ tools' = tools
         /\ lastEvent' = Ev("shutdown", "ok")

\* lines 154-159 of shutdown_agent after the awaited task t: its exception
\* is re-raised by `await`, otherwise the globals are cleared
ShutdownFinish(t) ==
  IF rpc[t] = "failed"
    THEN /\ lastEvent' = Ev("shutdown", "raised")
         /\ UNCHANGED coord
    ELSE /\ mcp_session_task' = None
         /\ mcp_session_stop' = None
         /\ mcp_session_ctx' = None
         /\ mcp_session' = None
         /\ agent' = NoAgent
         /\ tools' = <<>>
         /\ lastEvent' = Ev("shutdown", "ok")

\* shutdown_agent without the early return of lines 145-146: awaiting None
\* raises
G_ShutdownCall_NoGuard ==
  /\ impl = "gradio"
  /\ CanCall
  /\ IF mcp_session_task = None
       THEN /\ lastEvent' = Ev("shutdown", "raised")
            /\ UNCHANGED <<coord, eventSet, calls>>
       ELSE /\ eventSet' = IF mcp_session_stop # None
                             THEN eventSet \cup {mcp_session_stop} ELSE eventSet
            /\ IF rpc[mcp_session_task] \in {"done", "failed"}
                 THEN /\ ShutdownFinish(mcp_session_task)
                      /\ UNCHANGED calls
                 ELSE /\ calls' = Suspend(At("shutdown_wait", mcp_session_task))
                      /\ lastEvent' = Ev("shutdown", "waiting")
                      /\ UNCHANGED coord
  /\ exit_call' = NoExit /\ UNCHANGED <<outside, impl, connections, server_tools, opener, sess, closeCalls, nTasks, runner>>

\* shutdown_agent up to its first suspension
G_ShutdownCall ==
  /\ impl = "gradio"
  /\ CanCall
  /\ IF mcp_session_task = None
       THEN /\ lastEvent' = Ev("shutdown", "noop")
            /\ UNCHANGED <<coord, eventSet, calls>>
       ELSE /\ eventSet' = IF mcp_session_stop # None
                             THEN eventSet \cup {mcp_session_stop} ELSE eventSet
            /\ IF rpc[mcp_session_task] \in {"done", "failed"}
                 THEN /\ ShutdownFinish(mcp_session_task)
                      /\ UNCHANGED calls
                 ELSE /\ calls' = Suspend(At("shutdown_wait", mcp_session_task))
                      /\ lastEvent' = Ev("shutdown", "waiting")
                      /\ UNCHANGED coord
  /\ exit_call' = NoExit /\ UNCHANGED <<outside, impl, connections, server_tools, opener, sess, closeCalls, nTasks, runner>>

\* shutdown_agent resumed by the end of the task it awaits
G_ShutdownResume(p) ==
  /\ impl = "gradio"
  /\ p \in Suspended
  /\ p.pc = "shutdown_wait"
  /\ rpc[p.loc] \in {"done", "failed"}
  /\ ShutdownFinish(p.loc)
  /\ calls' = Resume(p)
  /\ exit_call' = NoExit /\ UNCHANGED <<outside, impl, connections, server_tools, opener, env, nTasks, runner>>

\* session_runner, lines 104-108: first step of the task made by create_task
RunnerStart(r) ==
  /\ rpc[r] = "created"
  /\ mcp_session_ctx' = Ctx(r, CERM_MCP_SERVER_NAME)
  /\ rpc' = [rpc EXCEPT ![r] = "open_local"]
  /\ opener' = [opener EXCEPT ![Ctx(r, CERM_MCP_SERVER_NAME)] = Runner(r)]
  /\ lastEvent' = TaskEv
  /\ exit_call' = NoExit /\ UNCHANGED <<outside, impl, connections, server_tools, mcp_session, mcp_session_task, mcp_session_stop,
                 tools, agent, env, nTasks, rexc, rarg, tools_local, rwait, calls>>

\* an exception leaves the try block: the finally clause (line 120) runs
RunnerRaise(r) ==
  /\ rpc' = [rpc EXCEPT ![r] = "closing"]
  /\ rexc' = [rexc EXCEPT ![r] = TRUE]

\* line 108: session_ctx_local.__aenter__() returns or raises
RunnerOpenLocal(r) ==
  /\ rpc[r] = "open_local"
  /\ \E ok \in OpenOutcomes(CERM_MCP_SERVER_NAME) :
       IF ok
         THEN /\ sess' = [sess EXCEPT ![Ctx(r, CERM_MCP_SERVER_NAME)] = "open"]
              /\ mcp_session' = Ctx(r, CERM_MCP_SERVER_NAME)
              /\ rpc' = [rpc EXCEPT ![r] = "open_m365"]
              /\ opener' = [opener EXCEPT ![Ctx(r, CERM_AZURE_SERVER_NAME)] = Runner(r)]
              /\ UNCHANGED rexc
         ELSE /\ RunnerRaise(r)
              /\ UNCHANGED <<sess, mcp_session, opener>>
  /\ lastEvent' = TaskEv
  /\ exit_call' = NoExit /\ UNCHANGED <<outside, impl, connections, server_tools, mcp_session_ctx, mcp_session_task, mcp_session_stop,
                 tools, agent, eventSet, closeCalls, nTasks, rarg, tools_local,
                 rwait, calls>>

\* line 109: session_ctx_m365.__aenter__() returns or raises; on return
\* load_mcp_tools(_mcp_session) is called with the global as it is now
RunnerOpenM365(r) ==
  /\ rpc[r] = "open_m365"
  /\ \E ok \in OpenOutcomes(CERM_AZURE_SERVER_NAME) :
       IF ok
         THEN /\ sess' = [sess EXCEPT ![Ctx(r, CERM_AZURE_SERVER_NAME)] = "open"]
              /\ rarg' = [rarg EXCEPT ![r] = mcp_session]
              /\ rpc' = [rpc EXCEPT ![r] = "load_local"]
              /\ UNCHANGED rexc
         ELSE /\ RunnerRaise(r)
              /\ UNCHANGED <<sess, rarg>>
  /\ lastEvent' = TaskEv
  /\ exit_call' = NoExit /\ UNCHANGED <<outside, impl, connections, server_tools, opener, coord, eventSet, closeCalls, nTasks, tools_local, rwait, calls>>

\* load_mcp_tools(session): the server's descriptors, or an error; it cannot
\* succeed without an open session
LoadOutcomes(h) == IF h # None /\ sess[h] = "open" THEN BOOLEAN ELSE {FALSE}

\* line 111: tools_local = await load_mcp_tools(_mcp_session)
RunnerLoadLocal(r) ==
  /\ rpc[r] = "load_local"
  /\ \E ok \in LoadOutcomes(rarg[r]) :
       IF ok
         THEN /\ tools_local' = [tools_local EXCEPT ![r] = server_tools[ServerOf(rarg[r])]]
              /\ rpc' = [rpc EXCEPT ![r] = "load_m365"]
              /\ UNCHANGED rexc
         ELSE /\ RunnerRaise(r)
              /\ UNCHANGED tools_local
  /\ lastEvent' = TaskEv
  /\ exit_call' = NoExit /\ UNCHANGED <<outside, impl, connections, server_tools, opener, coord, env, nTasks, rarg, rwait, calls>>

\* lines 112-117: the second load, the publication of tools, and the wait
\* on the Event the global names now (none, or one already set: no wait)
RunnerLoadM365(r) ==
  /\ rpc[r] = "load_m365"
  /\ \E ok \in LoadOutcomes(Ctx(r, CERM_AZURE_SERVER_NAME)) :
       IF ok
         THEN /\ tools' = tools_local[r] \o server_tools[CERM_AZURE_SERVER_NAME]
              /\ tools_local' = [tools_local EXCEPT
                                   ![r] = tools_local[r] \o server_tools[CERM_AZURE_SERVER_NAME]]
              /\ IF mcp_session_stop # None /\ mcp_session_stop \notin eventSet
                   THEN /\ rpc' = [rpc EXCEPT ![r] = "waiting"]
                        /\ rwait' = [rwait EXCEPT ![r] = mcp_session_stop]
                   ELSE /\ rpc' = [rpc EXCEPT ![r] = "closing"]
                        /\ UNCHANGED rwait
              /\ UNCHANGED rexc
         ELSE /\ RunnerRaise(r)
              /\ UNCHANGED <<tools, tools_local, rwait>>
  /\ lastEvent' = TaskEv
  /\ exit_call' = NoExit /\ UNCHANGED <<outside, impl, connections, server_tools, opener, mcp_session, mcp_session_ctx, mcp_session_task,
                 mcp_session_stop, agent, env, nTasks, rarg, calls>>

\* line 117: _mcp_session_stop.wait() returns once that Event is set
RunnerWake(r) ==
  /\ rpc[r] = "waiting"
  /\ rwait[r] \in eventSet
  /\ rpc' = [rpc EXCEPT ![r] = "closing"]
  /\ lastEvent' = TaskEv
  /\ exit_call' = NoExit /\ UNCHANGED <<outside, impl, connections, server_tools, opener, coord, env, nTasks, rexc, rarg,
                 tools_local, rwait, calls>>

\* ctx.__aexit__(None, None, None) on the context of handle h: closing an
\* open session releases it, or raises and leaves it open; a context whose
\* __aenter__ raised, or that was closed before, has nothing left to release
CloseOutcomes(h) ==
  IF sess[h] = "open"
    THEN {[ok |-> TRUE, now |-> "closed"], [ok |-> FALSE, now |-> "open"]}
    ELSE {[ok |-> TRUE, now |-> sess[h]]}

\* lines 118-120: the finally clause, then the end of the task (and of its
\* local variables)
RunnerClose(r) ==
  /\ rpc[r] = "closing"
  /\ \E o \in CloseOutcomes(Ctx(r, CERM_MCP_SERVER_NAME)) :
       /\ sess' = [sess EXCEPT ![Ctx(r, CERM_MCP_SERVER_NAME)] = o.now]
       /\ rpc' = [rpc EXCEPT ![r] = IF rexc[r] \/ ~o.ok THEN "failed" ELSE "done"]
  /\ closeCalls' = [closeCalls EXCEPT ![Ctx(r, CERM_MCP_SERVER_NAME)] = @ + 1]
  /\ exit_call' = ExitCall(Ctx(r, CERM_MCP_SERVER_NAME), Runner(r))
  /\ rarg' = [rarg EXCEPT ![r] = None]
  /\ tools_local' = [tools_local EXCEPT ![r] = <<>>]
  /\ rwait' = [rwait EXCEPT ![r] = None]
  /\ lastEvent' = TaskEv
  /\ UNCHANGED <<outside, impl, connections, server_tools, opener, coord, eventSet, nTasks, rexc, calls>>

\* ---- invoke_agent (the same code in both implementations) ----

\* invoke_agent building an agent from the current catalog when there is
\* none, instead of raising
InvokeCall_AutoInit ==
  /\ CanCall
  /\ agent' = IF agent = NoAgent THEN create_agent(1, tools) ELSE agent
  /\ calls' = Suspend(At("invoking", None))
  /\ lastEvent' = Ev("invoke", "forwarded")
  /\ exit_call' = NoExit /\ UNCHANGED <<outside, impl, connections, server_tools, opener, mcp_session, mcp_session_ctx, mcp_session_task,
                 mcp_session_stop, tools, env, nTasks, runner>>

\* lines 167-171: the check, then the call of agent.ainvoke
InvokeCall ==
  /\ CanCall
  /\ IF agent = NoAgent
       THEN /\ lastEvent' = Ev("invoke", "NotInitialized")
            /\ UNCHANGED calls
       ELSE /\ calls' = Suspend(At("invoking", None))
            /\ lastEvent' = Ev("invoke", "forwarded")
  /\ exit_call' = NoExit /\ UNCHANGED <<outside, impl, connections, server_tools, opener, coord, env, nTasks, runner>>

\* lines 171-172: agent.ainvoke returns or raises
InvokeReturn(p) ==
  /\ p \in Suspended
  /\ p.pc = "invoking"
  /\ \E ok \in BOOLEAN : lastEvent' = Ev("invoke", IF ok THEN "ok" ELSE "raised")
  /\ calls' = Resume(p)
  /\ exit_call' = NoExit /\ UNCHANGED <<outside, impl, connections, server_tools, opener, coord, env, nTasks, runner>>

\* ---- src/src/agent/agent.py ----

\* lines 85-90: the context is published before it is entered
S_InitCall ==
  /\ impl = "src"
  /\ CanCall
  /\ nTasks < MaxTasks
  /\ nTasks' = nTasks + 1
  /\ mcp_session_ctx' = Ctx(nTasks + 1, CERM_MCP_SERVER_NAME)
  /\ calls' = Suspend(At("s_open", Ctx(nTasks + 1, CERM_MCP_SERVER_NAME)))
  /\ opener' = [opener EXCEPT ![Ctx(nTasks + 1, CERM_MCP_SERVER_NAME)] = InitCaller(nTasks + 1)]
  /\ lastEvent' = Ev("init", "opening")
  /\ exit_call' = NoExit /\ UNCHANGED <<outside, impl, connections, server_tools, mcp_session, mcp_session_task, mcp_session_stop,
                 tools, agent, env, runner>>

\* lines 90-91: __aenter__ returns or raises
S_InitOpen(p) ==
  /\ impl = "src"
  /\ p \in Suspended
  /\ p.pc = "s_open"
  /\ \E ok \in OpenOutcomes(CERM_MCP_SERVER_NAME) :
       IF ok
         THEN /\ sess' = [sess EXCEPT ![p.loc] = "open"]
              /\ mcp_session' = p.loc
              /\ calls' = Resume(p) (+) SetToBag({At("s_load", p.loc)})
              /\ lastEvent' = Ev("init", "loading")
         ELSE /\ calls' = Resume(p)
              /\ lastEvent' = Ev("init", "raised")
              /\ UNCHANGED <<sess, mcp_session>>
  /\ exit_call' = NoExit /\ UNCHANGED <<outside, impl, connections, server_tools, opener, mcp_session_ctx, mcp_session_task, mcp_session_stop,
                 tools, agent, eventSet, closeCalls, nTasks, runner>>

\* lines 91-97: load_mcp_tools returns or raises, then create_agent
S_InitLoad(p) ==
  /\ impl = "src"
  /\ p \in Suspended
  /\ p.pc = "s_load"
  /\ \E ok \in LoadOutcomes(p.loc) :
       IF ok
         THEN /\ tools' = server_tools[ServerOf(p.loc)]
              /\ agent' = create_agent(AttemptOf(p.loc), server_tools[ServerOf(p.loc)])
              /\ lastEvent' = Ev("init", "ok")
         ELSE /\ lastEvent' = Ev("init", "raised")
              /\ UNCHANGED <<tools, agent>>
  /\ calls' = Resume(p)
  /\ exit_call' = NoExit /\ UNCHANGED <<outside, impl, connections, server_tools, opener, mcp_session, mcp_session_ctx, mcp_session_task,
                 mcp_session_stop, env, nTasks, runner>>

\* calls suspended in __aexit__ of the context of handle h
Closers(h) == CopiesIn(At("s_closing", h), calls)

\* the tasks that may be calling shutdown_agent while the context of handle
\* h is registered: the task that opened h, unless it is still inside that
\* init_agent call, or any other caller task
ShutdownCallers(h) ==
  IF At("s_open", h) \in Suspended \/ At("s_load", h) \in Suspended
    THEN {OtherCaller}
    ELSE {opener[h], OtherCaller}

\* lines 104-110 up to the await of __aexit__
S_ShutdownCall ==
  /\ impl = "src"
  /\ CanCall
  /\ IF mcp_session_ctx # None
       THEN /\ closeCalls[mcp_session_ctx] + Closers(mcp_session_ctx) < MaxCloseCalls
            /\ calls' = Suspend(At("s_closing", mcp_session_ctx))
            /\ \E who \in ShutdownCallers(mcp_session_ctx) :
                 exit_call' = ExitCall(mcp_session_ctx, who)
            /\ lastEvent' = Ev("shutdown", "waiting")
            /\ UNCHANGED <<agent, tools>>
       ELSE /\ agent' = NoAgent
            /\ tools' = <<>>
            /\ lastEvent' = Ev("shutdown", "noop")
            /\ exit_call' = NoExit
            /\ UNCHANGED calls
  /\ UNCHANGED <<outside, impl, connections, server_tools, opener, mcp_session, mcp_session_ctx, mcp_session_task,
                 mcp_session_stop, env, nTasks, runner>>

\* lines 106-110: __aexit__ returns or raises
S_ShutdownClose(p) ==
  /\ impl = "src"
  /\ p \in Suspended
  /\ p.pc = "s_closing"
  /\ \E o \in CloseOutcomes(p.loc) :
       /\ sess' = [sess EXCEPT ![p.loc] = o.now]
       /\ IF o.ok
            THEN /\ mcp_session_ctx' = None
                 /\ mcp_session' = None
                 /\ agent' = NoAgent
                 /\ tools' = <<>>
                 /\ lastEvent' = Ev("shutdown", "ok")
            ELSE /\ lastEvent' = Ev("shutdown", "raised")
                 /\ UNCHANGED <<mcp_session_ctx, mcp_session, agent, tools>>
  /\ closeCalls' = [closeCalls EXCEPT ![p.loc] = @ + 1]
  /\ calls' = Resume(p)
  /\ exit_call' = NoExit /\ UNCHANGED <<outside, impl, connections, server_tools, opener, mcp_session_task, mcp_session_stop, eventSet,
                 nTasks, runner>>

Next ==
  \/ G_InitCall
  \/ \E p \in Suspended : G_InitPoll(p)
  \/ G_ShutdownCall
  \/ \E p \in Suspended : G_ShutdownResume(p)
  \/ \E r \in Tasks : RunnerStart(r)
  \/ \E r \in Tasks : RunnerOpenLocal(r)
  \/ \E r \in Tasks : RunnerOpenM365(r)
  \/ \E r \in Tasks : RunnerLoadLocal(r)
  \/ \E r \in Tasks : RunnerLoadM365(r)
  \/ \E r \in Tasks : RunnerWake(r)
  \/ \E r \in Tasks : RunnerClose(r)
  \/ InvokeCall
  \/ \E p \in Suspended : InvokeReturn(p)
  \/ S_InitCall
  \/ \E p \in Suspended : S_InitOpen(p)
  \/ \E p \in Suspended : S_InitLoad(p)
  \/ S_ShutdownCall
  \/ \E p \in Suspended : S_ShutdownClose(p)

Spec == Init /\ [][Next]_vars

\* ---- scheduling ----
\* The event loop runs every callback that is ready: a session_runner task
\* whose awaited call has completed takes its next step, and a suspended
\* call whose sleep has elapsed, whose awaited task has ended or whose
\* awaited call has completed is resumed.  Nothing obliges a caller to make
\* a new call.
RunnerStep(r) ==
  \/ RunnerStart(r)
  \/ RunnerOpenLocal(r)
  \/ RunnerOpenM365(r)
  \/ RunnerLoadLocal(r)
  \/ RunnerLoadM365(r)
  \/ RunnerWake(r)
  \/ RunnerClose(r)

CallStep(p) ==
  \/ G_InitPoll(p)
  \/ G_ShutdownResume(p)
  \/ InvokeReturn(p)
  \/ S_InitOpen(p)
  \/ S_InitLoad(p)
  \/ S_ShutdownClose(p)

CallRecords ==
  {At(pc, loc) : pc \in {"poll_session", "poll_tools", "shutdown_wait", "invoking",
                         "s_open", "s_load", "s_closing"},
                 loc \in {None} \cup Handles}

FairSpec ==
  /\ Spec
  /\ \A r \in Tasks : WF_vars(RunnerStep(r))
  /\ \A p \in CallRecords : WF_vars(p \in Suspended /\ CallStep(p))

TypeOK ==
  /\ impl \in Impls
  /\ mcp_session \in {None} \cup Handles
  /\ mcp_session_task \in {None} \cup Tasks
  /\ nTasks \in 0..MaxTasks
  /\ BagCardinality(calls) <= NumCallers
  /\ \A h \in Handles : sess[h] \in {"none", "open", "closed"}

\* ---- claims ----

\* the runner finished (returned or raised)
Finished(r) == rpc[r] \in {"done", "failed"}

\* this step is a call of `op`: it sets the event and resumes none of the
\* suspended calls
Calls(op) ==
  /\ lastEvent'.op = op
  /\ \/ calls' = calls
     \/ BagCardinality(calls') > BagCardinality(calls)

\* C1: when a shutdown() has just completed, no session handle is open and
\* every handle that was opened has been closed exactly once, whichever
\* server it belongs to.
C1_NoLeakAfterShutdown ==
  (impl = "gradio" /\ lastEvent.op = "shutdown" /\ lastEvent.outcome \in {"ok", "noop"})
    => \A h \in Handles : sess[h] # "open" /\ (sess[h] = "closed" => closeCalls[h] = 1)

\* an init attempt is under way or established and no shutdown has cleared it
LifecycleOpen ==
  IF impl = "gradio" THEN mcp_session_task # None ELSE mcp_session_ctx # None

\* C2: an init() called while a lifecycle is open (a previous init() is
\* starting or has finished, and no shutdown() intervened) starts no new
\* attempt, hence opens no further session.
C2_InitIdempotent ==
  [][nTasks' # nTasks => ~LifecycleOpen]_vars

\* C3: in every reachable state at most one session is open per configured
\* server name.
C3_AtMostOneOpenPerServer ==
  impl = "gradio" =>
    \A name \in {CERM_MCP_SERVER_NAME, CERM_AZURE_SERVER_NAME} :
      Cardinality(OpenSessions(name)) <= 1

\* C4: once an init attempt has failed (an open or a catalog load raised and
\* the background task has ended), every session that attempt opened has
\* been closed, or at least its close was called.
C4_FailedInitClosesOpened ==
  impl = "gradio" =>
    \A r \in Tasks : (rpc[r] = "failed" /\ rexc[r]) =>
      \A name \in {CERM_MCP_SERVER_NAME, CERM_AZURE_SERVER_NAME} :
        sess[Ctx(r, name)] # "open" \/ closeCalls[Ctx(r, name)] >= 1

\* C5: after an init attempt has failed the coordinator is UNINITIALIZED, so
\* that a later init() does not return as "already initialized" but starts
\* a new attempt.
C5_FailedInitAllowsRetry ==
  (impl = "gradio" /\ lastEvent = Ev("init", "already")) =>
    rpc[mcp_session_task] # "failed"

\* C6: invoke() called while the coordinator is UNINITIALIZED raises the
\* not-initialized error and changes nothing: no session, no task, no
\* catalog, no agent.
C6_InvokeUninitialized ==
  [][(Calls("invoke") /\ Uninitialized) =>
        /\ lastEvent'.outcome = "NotInitialized"
        /\ calls' = calls
        /\ UNCHANGED <<coord, env, nTasks, runner>>]_vars

C6_Witness ==
  /\ impl = "gradio"
  /\ lastEvent = Ev("invoke", "NotInitialized")
  /\ Uninitialized
  /\ \E h \in Handles : sess[h] = "closed"

\* C7: invoke() is forwarded to the agent only while the coordinator is
\* READY, never while STARTING or STOPPING.
C7_InvokeOnlyWhenReady ==
  [][(impl = "gradio" /\ Calls("invoke") /\ lastEvent'.outcome = "forwarded")
        => Ready]_vars

\* C8: shutdown() never raises and, once it has returned, the coordinator is
\* UNINITIALIZED.
C8_ShutdownNeverRaises ==
  (lastEvent.op = "shutdown" /\ lastEvent.outcome # "waiting")
    => lastEvent.outcome # "raised" /\ Uninitialized

\* C9: when the background task has ended, a close has been attempted on
\* every session handle it holds open.
C9_EveryHandleCloseAttempted ==
  impl = "gradio" =>
    \A r \in Tasks : Finished(r) =>
      \A h \in Handles : (AttemptOf(h) = r /\ sess[h] = "open") => closeCalls[h] >= 1

\* C10: shutdown() called before any init(), or right after a completed
\* shutdown(), is a no-op: it does not raise, closes nothing and leaves the
\* coordinator UNINITIALIZED.
C10_ShutdownIdempotent ==
  [][(/\ Calls("shutdown")
         /\ \/ nTasks = 0
            \/ lastEvent.op = "shutdown" /\ lastEvent.outcome = "ok"
            \/ lastEvent.op = "shutdown" /\ lastEvent.outcome = "noop" /\ Uninitialized)
        => /\ lastEvent'.outcome = "noop"
           /\ closeCalls' = closeCalls
           /\ sess' = sess
           /\ calls' = calls
           /\ Uninitialized']_vars

C10_Witness ==
  /\ impl = "gradio"
  /\ lastEvent = Ev("shutdown", "noop")
  /\ Uninitialized
  /\ \E h \in Handles : sess[h] = "closed"

\* every server the running implementation opens has an open session
SessionsOpen ==
  \A name \in (IF impl = "gradio" THEN {CERM_MCP_SERVER_NAME, CERM_AZURE_SERVER_NAME}
                                  ELSE {CERM_MCP_SERVER_NAME}) :
    OpenSessions(name) # {}

\* C11: in every reachable state the sessions are open and the catalog is
\* non-empty exactly when the coordinator is READY, and the agent reference
\* is non-null exactly when it is READY.
C11_ReadyInvariant ==
  impl = "gradio" =>
    /\ (SessionsOpen /\ tools # <<>>) <=> Ready
    /\ (agent # NoAgent) <=> Ready


\* the descriptors of the servers `names`, concatenated in that order
ConcatTools(names) ==
  LET cat[i \in 0..Len(names)] ==
        IF i = 0 THEN <<>> ELSE cat[i - 1] \o server_tools[names[i]]
  IN cat[Len(names)]

\* attempt r has entered the session of server `name`
Opened(r, name) ==
  /\ name \in {CERM_MCP_SERVER_NAME, CERM_AZURE_SERVER_NAME}
  /\ sess[Ctx(r, name)] # "none"

\* C13: when init() has just succeeded, the catalog (and the catalog the
\* agent was built from) is the concatenation of the configured servers'
\* descriptors, servers in configured order, and within every attempt the
\* sessions were opened in that order.
C13_CatalogIsConcatenation ==
  /\ lastEvent = Ev("init", "ok") =>
       /\ tools = ConcatTools(connections)
       /\ agent.tools = ConcatTools(connections)
  /\ \A r \in Tasks : \A i, j \in DOMAIN connections :
       (i < j /\ Opened(r, connections[j])) => Opened(r, connections[i])


\* an init() call is suspended in its polling loops
InitPending == \E p \in Suspended : p.pc \in {"poll_session", "poll_tools"}

\* C14: an init() on which every open and every load succeeds eventually
\* returns with an agent built, also when the combined catalog is empty.
\* Stated for the first attempt: unless an open or a load of that attempt
\* raised, a stop was requested or a later attempt started, the pending
\* init() returns.
C14_InitEventuallyReady ==
  (impl = "gradio" /\ nTasks = 1 /\ InitPending)
    ~> \/ ~InitPending /\ agent # NoAgent
       \/ rexc[1]
       \/ 1 \in eventSet
       \/ nTasks > 1

\* C15: a shutdown() that waits for the background task of attempt t, at
\* whatever point of the start-up it was issued, eventually finds the task
\* ended with a close called on every session the attempt still holds open.
C15_ShutdownNotLost ==
  \A t \in Tasks :
    (impl = "gradio" /\ At("shutdown_wait", t) \in Suspended)
      ~> /\ Finished(t)
         /\ \A name \in {CERM_MCP_SERVER_NAME, CERM_AZURE_SERVER_NAME} :
              sess[Ctx(t, name)] = "open" => closeCalls[Ctx(t, name)] >= 1


\* C12: every close of a session is called by the task that called its open,
\* whichever tasks call init() and shutdown().
C12_OpenCloseSameTask ==
  exit_call # NoExit => exit_call.by = opener[exit_call.h]

\* ---- src/gradio-app/src/start_gradio.py ----
\* Texts are strings.  The leading emoji of the two fixed texts of the UI
\* (tool title, error message) is left out of the string constants.

\* ---- bounds ----
\* messages the agent appends in one turn
MaxAdded == 3
\* entries of the largest arguments dict of a tool call
MaxArgs == 6

\* metadata["log"] keeps this many characters of the serialized arguments
LOG_LIMIT == 50

Min(a, b) == IF a < b THEN a ELSE b
\* a name between the two backquotes of the f-strings, written as quotes
Code(name) == "'" \o name \o "'"

\* langchain_core.messages
HumanMessage(c) == [type |-> "human", content |-> c, tool_calls |-> <<>>, tool_call_id |-> ""]
AIMessage(c, tcs) == [type |-> "ai", content |-> c, tool_calls |-> tcs, tool_call_id |-> ""]
ToolMessage(c, id) == [type |-> "tool", content |-> c, tool_calls |-> <<>>, tool_call_id |-> id]
\* an entry of AIMessage.tool_calls
ToolCall(name, id, args) == [name |-> name, id |-> id, args |-> args]

\* the "args" of a tool call: absent, a string, or a dict of integers
NoArgs == [kind |-> "none"]
StrArgs(s) == [kind |-> "str", text |-> s]
DictArgs(items) == [kind |-> "dict", items |-> items]
KeyValue(k, v) == [k |-> k, v |-> v]

\* gradio.ChatMessage; a message built without metadata has an empty one
NoMeta == [k \in {} |-> ""]
ChatMessage(role, content, metadata) ==
  [role |-> role, content |-> content, metadata |-> metadata]

\* what agent.ainvoke returns: a dict holding the updated message list, or
\* a plain string
DictResult(msgs) == [kind |-> "dict", messages |-> msgs]
TextResult(t) == [kind |-> "str", text |-> t]

\* str() of a dict whose "messages" list is empty
EmptyDictRepr == "{'messages': []}"

\* lines 14-42, for the values respond() hands it
extract_content(value) ==
  IF value.kind = "str" THEN value.text
  ELSE IF value.messages # <<>>
    THEN value.messages[Len(value.messages)].content
    ELSE EmptyDictRepr

\* the conversion without the skip of assistant entries that carry metadata
format_history_for_agent_KeepsToolEntries(history) ==
  LET formatted[i \in 0..Len(history)] ==
        IF i = 0 THEN <<>>
        ELSE LET msg == history[i]
                 content == extract_content(TextResult(msg.content))
             IN IF msg.role \notin {"user", "assistant"} THEN formatted[i - 1]
                ELSE IF content = "" THEN formatted[i - 1]
                ELSE IF msg.role = "user"
                  THEN Append(formatted[i - 1], HumanMessage(content))
                  ELSE Append(formatted[i - 1], AIMessage(content, <<>>))
  IN formatted[Len(history)]

\* lines 45-61
format_history_for_agent(history) ==
  LET formatted[i \in 0..Len(history)] ==
        IF i = 0 THEN <<>>
        ELSE LET msg == history[i]
                 content == extract_content(TextResult(msg.content))
             IN IF msg.role \notin {"user", "assistant"} THEN formatted[i - 1]
                ELSE IF msg.role = "assistant" /\ msg.metadata # NoMeta
                  THEN formatted[i - 1]
                ELSE IF content = "" THEN formatted[i - 1]
                ELSE IF msg.role = "user"
                  THEN Append(formatted[i - 1], HumanMessage(content))
                  ELSE Append(formatted[i - 1], AIMessage(content, <<>>))
  IN formatted[Len(history)]

\* json.dumps of a dict of integers: {"k": v, "k": v}
dumps(items) ==
  LET body[i \in 0..Len(items)] ==
        IF i = 0 THEN ""
        ELSE body[i - 1] \o (IF i = 1 THEN "" ELSE ", ")
               \o "\"" \o items[i].k \o "\": " \o ToString(items[i].v)
  IN "{" \o body[Len(items)] \o "}"

\* `if args:` of line 69: None, "" and {} are false
Truthy(args) ==
  CASE args.kind = "str" -> args.text # ""
    [] args.kind = "dict" -> args.items # <<>>
    [] OTHER -> FALSE

\* lines 70-76
Serialized(args) == IF args.kind = "str" THEN args.text ELSE dumps(args.items)

\* no tool-result message answers the call
NoResponse == [type |-> "none"]

\* lines 64-81, with the ChatMessage respond() builds from the pair
format_tool_metadata_Cut49(tool_call, tool_response) ==
  LET log == Serialized(tool_call.args)
      base == [title |-> "Used " \o Code(tool_call.name), status |-> "done"]
      metadata ==
        IF Truthy(tool_call.args)
          THEN [title |-> base.title, status |-> base.status,
                log |-> SubSeq(log, 1, Min(LOG_LIMIT - 1, Len(log)))
                          \o (IF Len(log) > LOG_LIMIT THEN "..." ELSE "")]
          ELSE base
      content == IF tool_response # NoResponse
                   THEN tool_response.content
                   ELSE "Called " \o Code(tool_call.name) \o "."
  IN ChatMessage("assistant", content, metadata)

format_tool_metadata(tool_call, tool_response) ==
  LET log == Serialized(tool_call.args)
      base == [title |-> "Used " \o Code(tool_call.name), status |-> "done"]
      metadata ==
        IF Truthy(tool_call.args)
          THEN [title |-> base.title, status |-> base.status,
                log |-> SubSeq(log, 1, Min(LOG_LIMIT, Len(log)))
                          \o (IF Len(log) > LOG_LIMIT THEN "..." ELSE "")]
          ELSE base
      content == IF tool_response # NoResponse
                   THEN tool_response.content
                   ELSE "Called " \o Code(tool_call.name) \o "."
  IN ChatMessage("assistant", content, metadata)

\* lines 124-131: the first tool-result message after position i that
\* carries the id of the call
ToolResponse(recent, i, call_id) ==
  LET later == {k \in (i + 1)..Len(recent) :
                  recent[k].type = "tool" /\ recent[k].tool_call_id = call_id}
  IN IF later = {} THEN NoResponse
     ELSE recent[CHOOSE k \in later : \A l \in later : k <= l]

\* lines 117-139: the entries of the tool calls of recent_messages
ToolMessages(recent) ==
  LET entries[i \in 0..Len(recent)] ==
        IF i = 0 THEN <<>>
        ELSE entries[i - 1] \o
               [j \in 1..Len(recent[i].tool_calls) |->
                  format_tool_metadata(recent[i].tool_calls[j],
                                       ToolResponse(recent, i, recent[i].tool_calls[j].id))]
  IN entries[Len(recent)]

\* invoke_agent (agent.py lines 162-172) with the agent `ag` and what
\* ag.ainvoke does: the outcome is an exception or the returned pair
NotInitializedText == "Agent not initialized. Call init_agent() first."
Raised(text) == [raised |-> TRUE, exc |-> text, value |-> <<>>]
Returned(value) == [raised |-> FALSE, exc |-> "", value |-> value]

invoke_agent_ReturnsHistory(ag, messages, ainvoke) ==
  IF ag = NoAgent THEN Raised(NotInitializedText)
  ELSE IF ainvoke.raised THEN ainvoke
  ELSE IF ainvoke.value.kind = "dict"
    THEN Returned(<<ainvoke.value, ainvoke.value.messages>>)
    ELSE Returned(<<ainvoke.value, messages>>)

invoke_agent(ag, messages, ainvoke) ==
  IF ag = NoAgent THEN Raised(NotInitializedText)
  ELSE IF ainvoke.raised THEN ainvoke
  ELSE Returned(<<ainvoke.value, messages>>)

\* ---- one call of respond() ----
\* the inputs of the call: the user text, the chat history gradio passes,
\* the stored conversation state (None and [] are both false at line 97),
\* and the messages the agent appends this turn
NewTurn(m, h, s, a) ==
  [pc |-> "called", message |-> m, history |-> h, conversation_state |-> s,
   added |-> a, messages |-> <<>>, base_length |-> 0, failed |-> FALSE,
   exc |-> "", invoked |-> Returned(<<>>), reply |-> <<>>, state |-> <<>>]

UserTexts == {"hi"}
\* earlier turns as the chatbot shows them: a question, a tool entry, an
\* answer, an entry of another role and an empty one
ToolEntry == ChatMessage("assistant", "r0", [title |-> "Used " \o Code("lookup"), status |-> "done"])
HistoryChoices ==
  {<<>>,
   <<ChatMessage("user", "q1", NoMeta), ChatMessage("assistant", "a1", NoMeta)>>,
   <<ChatMessage("user", "q1", NoMeta), ToolEntry, ChatMessage("assistant", "a1", NoMeta),
     ChatMessage("system", "s1", NoMeta), ChatMessage("user", "", NoMeta)>>}
StateChoices ==
  {<<>>,
   <<HumanMessage("q1"), AIMessage("a1", <<>>)>>,
   <<HumanMessage("q1"), AIMessage("", <<ToolCall("lookup", "a", NoArgs)>>),
     ToolMessage("r0", "a"), AIMessage("a1", <<>>)>>}

\* a dict of n entries that all hold v
ArgDict(n, v) == DictArgs([i \in 1..n |-> KeyValue(SubSeq("abcdefghijklmnop", i, i), v)])
\* the arguments a call may carry: none, an empty dict, an empty or a short
\* string, and dicts whose serializations are 40 to 60 characters long
ArgChoices ==
  {NoArgs, StrArgs(""), StrArgs("order 7"), ArgDict(0, 1)}
    \cup {ArgDict(n, v) : n \in {MaxArgs - 1, MaxArgs}, v \in {1, 100}}

\* the two tool calls an AI message may make, and what the agent may append
CallA(args) == ToolCall("lookup", "a", args)
CallB == ToolCall("send", "b", ArgDict(1, 1))
AddedMessages(args) ==
  {AIMessage("done", <<>>),
   AIMessage("", <<CallA(args)>>),
   AIMessage("", <<CallB>>),
   AIMessage("", <<CallA(args), CallB>>),
   ToolMessage("ra", "a"),
   ToolMessage("rb", "b")}
SeqsUpTo(S, n) == UNION {[1..k -> S] : k \in 0..n}
AddedChoices == UNION {SeqsUpTo(AddedMessages(args), MaxAdded) : args \in ArgChoices}
PlainAdded == {<<AIMessage("done", <<>>)>>}

\* another caller's init_agent() is under way: its session_runner task was
\* created and the caller polls at line 126
InitUnderWay ==
  /\ impl = "gradio"
  /\ connections = <<CERM_MCP_SERVER_NAME, CERM_AZURE_SERVER_NAME>>
  /\ server_tools \in ToolChoices(impl)
  /\ mcp_session = None
  /\ mcp_session_ctx = Ctx(1, CERM_MCP_SERVER_NAME)
  /\ mcp_session_task = 1
  /\ mcp_session_stop = 1
  /\ tools = <<>>
  /\ agent = NoAgent
  /\ eventSet = {}
  /\ sess = [h \in Handles |-> "none"]
  /\ closeCalls = [h \in Handles |-> 0]
  /\ opener = [h \in Handles |-> IF h = Ctx(1, CERM_MCP_SERVER_NAME) THEN Runner(1) ELSE NoTask]
  /\ exit_call = NoExit
  /\ nTasks = 1
  /\ rpc = [r \in Tasks |-> IF r = 1 THEN "open_local" ELSE "none"]
  /\ rexc = [r \in Tasks |-> FALSE]
  /\ rarg = [r \in Tasks |-> None]
  /\ tools_local = [r \in Tasks |-> <<>>]
  /\ rwait = [r \in Tasks |-> None]
  /\ calls = SetToBag({At("poll_session", None)})
  /\ lastEvent = TaskEv

TurnInit ==
  /\ orders = NoOrders
  /\ NoCalls
  /\ \/ /\ \/ AtImport /\ impl = "gradio" /\ Len(connections) = 2
                       /\ server_tools[CERM_MCP_SERVER_NAME] # <<>>
           \/ InitUnderWay /\ server_tools[CERM_MCP_SERVER_NAME] # <<>>
        /\ \E m \in UserTexts, h \in HistoryChoices, s \in StateChoices, a \in PlainAdded :
             turn = NewTurn(m, h, s, a)
     \/ /\ AtImport /\ impl = "gradio" /\ Len(connections) = 2
                    /\ server_tools[CERM_MCP_SERVER_NAME] # <<>>
        /\ \E m \in UserTexts, a \in AddedChoices : turn = NewTurn(m, <<>>, <<>>, a)

\* the preparation without the reset of the stored state
RespondCall_KeepsState ==
  /\ turn.pc = "called"
  /\ LET conversation_state == turn.conversation_state
         prior == IF conversation_state # <<>>
                    THEN conversation_state
                    ELSE format_history_for_agent(turn.history)
         messages == Append(prior, HumanMessage(turn.message))
     IN turn' = [turn EXCEPT !.pc = "init", !.messages = messages,
                             !.base_length = Len(messages)]
  /\ UNCHANGED <<lifecycle, orders, apart>>

\* lines 91-99
RespondCall ==
  /\ turn.pc = "called"
  /\ LET conversation_state == IF turn.history = <<>> THEN <<>> ELSE turn.conversation_state
         prior == IF conversation_state # <<>>
                    THEN conversation_state
                    ELSE format_history_for_agent(turn.history)
         messages == Append(prior, HumanMessage(turn.message))
     IN turn' = [turn EXCEPT !.pc = "init", !.messages = messages,
                             !.base_length = Len(messages)]
  /\ UNCHANGED <<lifecycle, orders, apart>>

\* lines 102-104.  The name `agent` that line 103 tests was bound by the
\* import of line 8 and stays None, so init_agent() is called every turn.
\* With a session task already created it returns at once (agent.py lines
\* 96-98); otherwise it runs to line 136 and returns, or create_agent
\* raises at line 132 after the sessions were opened and the catalog set.
RespondInitAgent ==
  /\ turn.pc = "init"
  /\ IF mcp_session_task # None
       THEN /\ lastEvent' = Ev("init", "already")
            /\ turn' = [turn EXCEPT !.pc = "invoke"]
            /\ UNCHANGED <<coord, env, opener, nTasks, runner>>
       ELSE /\ nTasks' = 1
            /\ mcp_session_task' = 1
            /\ mcp_session_stop' = 1
            /\ mcp_session_ctx' = Ctx(1, CERM_MCP_SERVER_NAME)
            /\ mcp_session' = Ctx(1, CERM_MCP_SERVER_NAME)
            /\ tools' = server_tools[CERM_MCP_SERVER_NAME] \o server_tools[CERM_AZURE_SERVER_NAME]
            /\ sess' = [sess EXCEPT ![Ctx(1, CERM_MCP_SERVER_NAME)] = "open",
                                    ![Ctx(1, CERM_AZURE_SERVER_NAME)] = "open"]
            /\ opener' = [opener EXCEPT ![Ctx(1, CERM_MCP_SERVER_NAME)] = Runner(1),
                                        ![Ctx(1, CERM_AZURE_SERVER_NAME)] = Runner(1)]
            /\ rpc' = [rpc EXCEPT ![1] = "waiting"]
            /\ rarg' = [rarg EXCEPT ![1] = Ctx(1, CERM_MCP_SERVER_NAME)]
            /\ tools_local' = [tools_local EXCEPT ![1] = tools']
            /\ rwait' = [rwait EXCEPT ![1] = 1]
            /\ \E built \in BOOLEAN :
                 /\ agent' = IF built THEN create_agent(1, tools') ELSE NoAgent
                 /\ lastEvent' = Ev("init", IF built THEN "ok" ELSE "raised")
                 /\ turn' = IF built
                              THEN [turn EXCEPT !.pc = "invoke"]
                              ELSE [turn EXCEPT !.pc = "except", !.failed = TRUE,
                                                !.exc = "create_agent failed"]
            /\ UNCHANGED <<eventSet, closeCalls, rexc>>
  /\ exit_call' = NoExit
  /\ UNCHANGED <<impl, connections, server_tools, calls, orders, apart>>

\* what agent.ainvoke does with the prepared messages: it returns the list
\* extended by this turn's messages, returns a plain string, or raises
AinvokeOutcomes(messages, added) ==
  {Returned(DictResult(messages \o added)), Returned(TextResult("plain")), Raised("boom")}

\* line 106 with invoke_agent (agent.py lines 162-172)
RespondInvoke ==
  /\ turn.pc = "invoke"
  /\ \E ainvoke \in AinvokeOutcomes(turn.messages, turn.added) :
       LET outcome == invoke_agent(agent, turn.messages, ainvoke)
       IN /\ turn' = IF outcome.raised
                       THEN [turn EXCEPT !.pc = "except", !.failed = TRUE,
                                         !.exc = outcome.exc, !.invoked = outcome]
                       ELSE [turn EXCEPT !.pc = "render", !.invoked = outcome]
          /\ lastEvent' = Ev("invoke", IF outcome.raised
                                         THEN (IF agent = NoAgent THEN "NotInitialized" ELSE "raised")
                                         ELSE "ok")
  /\ exit_call' = NoExit
  /\ UNCHANGED <<impl, connections, server_tools, coord, env, opener, nTasks, runner,
                 calls, orders, apart>>

\* lines 106-149: `result, _ = ...` keeps the first half of the pair
RespondRender ==
  /\ turn.pc = "render"
  /\ LET result == turn.invoked.value[1]
         response_text == extract_content(result)
         messages == IF result.kind = "dict"
                       THEN result.messages
                       ELSE Append(turn.messages, AIMessage(response_text, <<>>))
         recent_messages == IF Len(messages) >= turn.base_length
                              THEN SubSeq(messages, turn.base_length + 1, Len(messages))
                              ELSE <<>>
         tool_messages == ToolMessages(recent_messages)
         final_message == ChatMessage("assistant", response_text, NoMeta)
     IN turn' = [turn EXCEPT !.pc = "done", !.messages = messages,
                             !.reply = Append(tool_messages, final_message),
                             !.state = messages]
  /\ UNCHANGED <<lifecycle, orders, apart>>

\* lines 150-152, without and with the messages of the turn
RespondExcept_KeepsOldState ==
  /\ turn.pc = "except"
  /\ turn' = [turn EXCEPT !.pc = "done",
                          !.reply = <<ChatMessage("assistant", "Agent error: " \o turn.exc, NoMeta)>>,
                          !.state = turn.conversation_state]
  /\ UNCHANGED <<lifecycle, orders, apart>>

RespondExcept ==
  /\ turn.pc = "except"
  /\ turn' = [turn EXCEPT !.pc = "done",
                          !.reply = <<ChatMessage("assistant", "Agent error: " \o turn.exc, NoMeta)>>,
                          !.state = turn.messages]
  /\ UNCHANGED <<lifecycle, orders, apart>>

TurnNext ==
  \/ RespondCall
  \/ RespondInitAgent
  \/ RespondInvoke
  \/ RespondRender
  \/ RespondExcept

TurnSpec == TurnInit /\ [][TurnNext]_vars

\* ---- C16 ----
\* C16: a successful invoke_agent(messages) returns the pair (result,
\* messages): result is what the agent's ainvoke returned and messages is
\* the list that was passed in, unmodified; the call changes no coordinator
\* state (session, context, task, stop event, catalog, agent, the sessions
\* of the environment).
C16_InvokeReturnsSameMessages ==
  [][(turn.pc = "invoke" /\ turn'.pc = "render") =>
       /\ turn'.invoked.value[2] = turn.messages
       /\ Returned(turn'.invoked.value[1]) \in AinvokeOutcomes(turn.messages, turn.added)
       /\ turn'.messages = turn.messages
       /\ UNCHANGED <<coord, env>>]_vars

\* invoke_agent has returned a result whose message list is longer than the
\* list it was given, next to that list
C16_Witness ==
  /\ turn.pc = "render"
  /\ agent # NoAgent
  /\ turn.invoked.value[1].kind = "dict"
  /\ Len(turn.invoked.value[1].messages) > Len(turn.messages)
  /\ turn.invoked.value[2] = turn.messages

\* ---- C17 ----
\* the messages respond() prepares for a turn: the new user message after
\* the stored state, or after the converted chat history when nothing is
\* stored; an empty history starts a new conversation with nothing before
Prepared ==
  LET prior == IF turn.history = <<>> THEN <<>>
               ELSE IF turn.conversation_state # <<>> THEN turn.conversation_state
               ELSE format_history_for_agent(turn.history)
  IN prior \o <<HumanMessage(turn.message)>>

\* respond() does not raise on a failure of init_agent() or invoke_agent():
\* the exception takes the call to its handler, and the call returns exactly
\* one assistant message carrying the error text, with the conversation
\* state `state`
ErrorReturn(state) ==
  /\ turn.pc # "none" /\ turn.failed => turn.pc \in {"except", "done"}
  /\ (turn.pc = "done" /\ turn.failed) =>
       /\ Len(turn.reply) = 1
       /\ turn.reply[1].role = "assistant"
       /\ turn.reply[1].content = "Agent error: " \o turn.exc
       /\ turn.state = state

\* C17, as stated: respond() never raises; when init_agent() or
\* invoke_agent() fails it returns one assistant message carrying the error
\* text and a conversation state equal to the prior state followed by the
\* new user message.
C17_StateIsPriorStatePlusUser ==
  ErrorReturn(turn.conversation_state \o <<HumanMessage(turn.message)>>)

\* C17, amended: respond() never raises; when init_agent() or invoke_agent()
\* fails it returns one assistant message carrying the error text and a
\* conversation state equal to the messages prepared for the turn: the new
\* user message after the stored state, after the converted chat history
\* when no state is stored, or alone when the history is empty.
C17_RespondReturnsError == ErrorReturn(Prepared)

\* agent.ainvoke raised in a turn that had a stored state and a history,
\* and respond() has returned
C17_Witness ==
  /\ turn.pc = "done"
  /\ turn.failed
  /\ turn.exc = "boom"
  /\ turn.history # <<>>
  /\ turn.conversation_state # <<>>
  /\ turn.state = turn.conversation_state \o <<HumanMessage(turn.message)>>

\* ---- C18 ----
\* The reply of a successful turn holds one "tool used" entry for each tool
\* call in the messages the agent added this turn, in call order, and then
\* the final answer as its last entry; an entry's content is the content of
\* the first tool-result message after the call that carries the call's id,
\* or "Called '<name>'." when there is none; an entry's log is the
\* serialization of the call's arguments when that has at most 50
\* characters, and its first 50 characters followed by "..." otherwise.
\* Every entry has a log (log_always), or the entries of the calls that
\* carry arguments have one and the others have none.
ToolEntries(log_always) ==
  (turn.pc = "done" /\ ~turn.failed) =>
    LET result == turn.invoked.value[1]
        new == IF result.kind = "dict" THEN turn.added ELSE <<>>
        answer == IF result.kind = "dict"
                    THEN (turn.messages \o turn.added)[Len(turn.messages) + Len(turn.added)].content
                    ELSE result.text
        Places == UNION {{<<i, j>> : j \in 1..Len(new[i].tool_calls)} : i \in 1..Len(new)}
        Rank(p) == Cardinality({q \in Places : q[1] < p[1] \/ (q[1] = p[1] /\ q[2] <= p[2])})
    IN /\ Len(turn.reply) = Cardinality(Places) + 1
       /\ turn.reply[Len(turn.reply)] = ChatMessage("assistant", answer, NoMeta)
       /\ \A p \in Places :
            LET call == new[p[1]].tool_calls[p[2]]
                entry == turn.reply[Rank(p)]
                answers == {k \in (p[1] + 1)..Len(new) :
                              new[k].type = "tool" /\ new[k].tool_call_id = call.id}
                text == Serialized(call.args)
            IN /\ entry.role = "assistant"
               /\ entry.metadata.title = "Used " \o Code(call.name)
               /\ answers = {} => entry.content = "Called " \o Code(call.name) \o "."
               /\ \A k \in answers :
                    (\A l \in answers : k <= l) => entry.content = new[k].content
               /\ log_always => "log" \in DOMAIN entry.metadata
               /\ "log" \in DOMAIN entry.metadata <=> (log_always \/ Truthy(call.args))
               /\ Truthy(call.args) =>
                    entry.metadata.log =
                      IF Len(text) > 50 THEN SubSeq(text, 1, 50) \o "..." ELSE text


\* C18, as stated: one "tool used" entry per tool call of the turn, in call
\* order, before the final answer, which is the last entry; the content is
\* that of the answering tool-result message, or "Called '<name>'."; and
\* the entry's argument log is the first 50 characters of the serialized
\* arguments, followed by "..." exactly when they are longer than 50.
C18_EveryEntryHasLog == ToolEntries(TRUE)

\* C18, amended: as stated, but only the entry of a call that carries
\* arguments (a non-empty dict or string) has an argument log; the entry of
\* a call without arguments has none.
C18_ToolEntries == ToolEntries(FALSE)

\* a turn with two tool calls has been rendered: the first has a long
\* arguments dict and was answered, the second was not answered
C18_Witness ==
  /\ turn.pc = "done"
  /\ ~turn.failed
  /\ Len(turn.reply) = 3
  /\ "log" \in DOMAIN turn.reply[1].metadata
  /\ Len(turn.reply[1].metadata.log) = 53
  /\ turn.reply[1].content = "ra"
  /\ turn.reply[2].content = "Called " \o Code("send") \o "."
  /\ turn.reply[3].content = "done"

\* ---- src/src/tools/save_order.py ----

\* ---- bounds ----
\* save_order calls made
MaxOrders == 3
\* clock readings, in steps of half a second from 10:00:00
MaxClock == 3

\* pydantic models of lines 16-31
OrderItem(name, quantity) == [name |-> name, quantity |-> quantity]
Order(item, customer_name, address, email) ==
  [item |-> item, customer_name |-> customer_name, address |-> address, email |-> email]
OrderConfirmation(order_path, order_id, success) ==
  [order_path |-> order_path, order_id |-> order_id, success |-> success]

OrderChoices ==
  {Order(<<OrderItem("pen", 2)>>, "Ann", "1 Main St", "ann@x.org"),
   Order(<<OrderItem("ink", 1), OrderItem("pen", 10)>>, "Bob", "2 Side St", "bob@x.org")}

\* order.model_dump_json(): compact JSON, fields in declaration order
model_dump_json(order) ==
  LET items[i \in 0..Len(order.item)] ==
        IF i = 0 THEN ""
        ELSE items[i - 1] \o (IF i = 1 THEN "" ELSE ",")
               \o "{\"name\":\"" \o order.item[i].name \o "\",\"quantity\":"
               \o ToString(order.item[i].quantity) \o "}"
  IN "{\"item\":[" \o items[Len(order.item)] \o "],\"customer_name\":\""
       \o order.customer_name \o "\",\"address\":\"" \o order.address
       \o "\",\"email\":\"" \o order.email \o "\"}"

\* datetime.now() at clock reading t, and its isoformat(): the fraction is
\* printed unless the microseconds are zero
Now(t) == [second |-> t \div 2, microsecond |-> (t % 2) * 500000]
TwoDigits(n) == IF n < 10 THEN "0" \o ToString(n) ELSE ToString(n)
isoformat(d) ==
  "2025-01-01T10:00:" \o TwoDigits(d.second)
    \o (IF d.microsecond = 0 THEN "" ELSE "." \o ToString(d.microsecond))

\* str.replace(old, new) for a one-character old
replace(s, old, new) ==
  LET out[i \in 0..Len(s)] ==
        IF i = 0 THEN ""
        ELSE out[i - 1] \o (IF SubSeq(s, i, i) = old THEN new ELSE SubSeq(s, i, i))
  IN out[Len(s)]

\* `sub in s` of line 57
Contains(s, sub) ==
  \E i \in 1..(Len(s) - Len(sub) + 1) : SubSeq(s, i, i + Len(sub) - 1) = sub

\* line 40
PathOf(safe_name) == "downloads/sales_orders/" \o safe_name \o ".json"

\* lines 50-59, over the files of the directory
verify_order(files, order_id) ==
  \E path \in DOMAIN files : Contains(files[path], order_id)

\* the identifiers verify_order is asked about: those of the confirmations,
\* one no confirmation carries, a customer's name and the empty string
ProbeIds == {replace(isoformat(Now(t)), ":", "-") : t \in 0..MaxClock}
              \cup {"2025-01-01T09-00-00", "Ann", ""}

OrderInit ==
  /\ AtImport /\ impl = "src" /\ server_tools[CERM_MCP_SERVER_NAME] # <<>>
  /\ turn = NoTurn
  /\ orders = NoOrders
  /\ NoCalls

\* lines 34-47 at clock reading t; the clock does not run backwards
SaveOrder ==
  /\ Len(orders.confirmations) < MaxOrders
  /\ \E order \in OrderChoices, t \in orders.clock..MaxClock :
       LET safe_name == replace(isoformat(Now(t)), ":", "-")
           path == PathOf(safe_name)
           files == (path :> model_dump_json(order)) @@ orders.files
       IN orders' = [orders EXCEPT
                       !.files = files,
                       !.clock = t,
                       !.saved = Append(@, order),
                       !.confirmations =
                          Append(@, OrderConfirmation(path, safe_name, path \in DOMAIN files)),
                       !.asked = "", !.verified = FALSE, !.last = "save_order"]
  /\ UNCHANGED <<lifecycle, turn, apart>>

\* lines 50-59
VerifyOrder ==
  /\ \E order_id \in ProbeIds :
       orders' = [orders EXCEPT !.asked = order_id,
                                !.verified = verify_order(orders.files, order_id),
                                !.last = "verify_order"]
  /\ UNCHANGED <<lifecycle, turn, apart>>

OrderNext ==
  \/ SaveOrder
  \/ VerifyOrder

OrderSpec == OrderInit /\ [][OrderNext]_vars

\* ---- C19 ----
\* C19: verify_order(id) returns true exactly when id is the order_id of a
\* confirmation save_order returned earlier; in particular it returns true
\* for the order_id of every confirmation.
C19_VerifyFindsSavedOrders ==
  orders.last = "verify_order" =>
    (orders.verified <=>
       \E i \in 1..Len(orders.confirmations) : orders.confirmations[i].order_id = orders.asked)

\* ---- C20 ----
\* C20: after any sequence of save_order calls the directory holds one file
\* per call, the file of every order still holds that order, and the
\* order_ids returned are pairwise distinct, whatever the clock readings.
C20_OneFilePerOrder ==
  /\ Cardinality(DOMAIN orders.files) = Len(orders.confirmations)
  /\ \A i \in 1..Len(orders.confirmations) :
       orders.files[orders.confirmations[i].order_path] = model_dump_json(orders.saved[i])
  /\ \A i, j \in 1..Len(orders.confirmations) :
       i # j => orders.confirmations[i].order_id # orders.confirmations[j].order_id

\* ---- src/gradio-app/src/config/config.py ----

\* ---- bounds ----
\* comma-separated entries of APP_ALLOW_MAIL_DOMAINS
MaxParts == 3

\* the lifecycle at import, in one implementation, with no UI turn and no
\* order saved: the start of the specifications of the stand-alone functions
Elsewhere ==
  /\ AtImport /\ impl = "src" /\ server_tools[CERM_MCP_SERVER_NAME] # <<>>
  /\ turn = NoTurn
  /\ orders = NoOrders

\* str methods
Whitespace == {" ", "\t"}
UpperCase == "ABCDEFGHIJKLMNOPQRSTUVWXYZ"
LowerCase == "abcdefghijklmnopqrstuvwxyz"
Char(s, i) == SubSeq(s, i, i)
strip(s) ==
  LET kept == {i \in 1..Len(s) : Char(s, i) \notin Whitespace}
  IN IF kept = {} THEN ""
     ELSE SubSeq(s, CHOOSE i \in kept : \A j \in kept : i <= j,
                    CHOOSE i \in kept : \A j \in kept : j <= i)
lower(s) ==
  LET low(c) == IF \E k \in 1..Len(UpperCase) : Char(UpperCase, k) = c
                  THEN Char(LowerCase, CHOOSE k \in 1..Len(UpperCase) : Char(UpperCase, k) = c)
                  ELSE c
      out[i \in 0..Len(s)] == IF i = 0 THEN "" ELSE out[i - 1] \o low(Char(s, i))
  IN out[Len(s)]
startswith(s, prefix) == Len(s) >= Len(prefix) /\ SubSeq(s, 1, Len(prefix)) = prefix
\* s.split(sep) for a one-character sep: the pieces between the separators
split(s, sep) ==
  LET cuts == {i \in 1..Len(s) : Char(s, i) = sep}
      \* the piece that starts at position i
      piece(i) == LET later == {c \in cuts : c >= i}
                  IN SubSeq(s, i, IF later = {} THEN Len(s)
                                  ELSE (CHOOSE c \in later : \A d \in later : c <= d) - 1)
      starts == {1} \cup {c + 1 : c \in cuts}
      nth[k \in 1..Cardinality(starts)] ==
        CHOOSE i \in starts : Cardinality({j \in starts : j < i}) = k - 1
  IN [k \in 1..Cardinality(starts) |-> piece(nth[k])]
join(parts, sep) ==
  LET out[i \in 0..Len(parts)] ==
        IF i = 0 THEN ""
        ELSE out[i - 1] \o (IF i = 1 THEN "" ELSE sep) \o parts[i]
  IN out[Len(parts)]

\* a Python value that is a str or a list of str
StrValue(s) == [kind |-> "str", value |-> s]
ListValue(l) == [kind |-> "list", value |-> l]

\* lines 115-133
allow_mail_domain_list(allow_mail_domains) ==
  LET raw == strip(IF allow_mail_domains # "" THEN allow_mail_domains ELSE "*")
      pieces == split(raw, ",")
      parts == SelectSeq([i \in 1..Len(pieces) |-> lower(strip(pieces[i]))],
                         LAMBDA p : p # "")
      normalized == [i \in 1..Len(parts) |->
                       IF startswith(parts[i], "@") THEN parts[i] ELSE "@" \o parts[i]]
  IN IF raw = "*" THEN StrValue("*")
     ELSE IF \E i \in 1..Len(parts) : parts[i] = "*" THEN StrValue("*")
     ELSE IF normalized # <<>> THEN ListValue(normalized)
     ELSE StrValue("*")

\* the values APP_ALLOW_MAIL_DOMAINS may have: one to MaxParts entries; the
\* field has min_length=1 (line 87), so the setting is never empty
PartChoices == {"*", " ", "", "@Ex.com", " b.ORG "}
SettingChoices ==
  {join(parts, ",") : parts \in UNION {[1..k -> PartChoices] : k \in 1..MaxParts}} \ {""}

ConfigInit ==
  /\ Elsewhere
  /\ loader = NoCall
  /\ auth = NoCall
  /\ classifier = NoCall
  /\ \E setting \in SettingChoices :
       config = [pc |-> "loaded", allow_mail_domains |-> setting, value |-> StrValue("")]

\* AppConfig().allow_mail_domain_list is read
ReadAllowList ==
  /\ config.pc = "loaded"
  /\ config' = [config EXCEPT !.pc = "read",
                              !.value = allow_mail_domain_list(config.allow_mail_domains)]
  /\ UNCHANGED <<lifecycle, turn, orders, loader, auth, classifier>>

\* the setting is changed and the configuration loaded anew
Reload ==
  /\ config.pc = "read"
  /\ \E setting \in SettingChoices :
       config' = [pc |-> "loaded", allow_mail_domains |-> setting, value |-> StrValue("")]
  /\ UNCHANGED <<lifecycle, turn, orders, loader, auth, classifier>>

ConfigNext ==
  \/ ReadAllowList
  \/ Reload

ConfigSpec == ConfigInit /\ [][ConfigNext]_vars

\* ---- C21 ----
\* the non-blank entries of the setting, stripped
Entries(setting) ==
  SelectSeq([i \in 1..Len(split(setting, ",")) |-> strip(split(setting, ",")[i])],
            LAMBDA p : p # "")
AllAllowed(setting) ==
  \/ strip(setting) = "*"
  \/ \E i \in 1..Len(Entries(setting)) : Entries(setting)[i] = "*"
  \/ Entries(setting) = <<>>

\* C21: allow_mail_domain_list is the list ['*'] when all domains are
\* allowed (the setting is '*', has a '*' entry or has no non-blank entry);
\* otherwise it is the list of the non-blank entries in input order, each
\* stripped, lower-cased and starting with '@'.
C21_AllowListIsList ==
  config.pc = "read" =>
    IF AllAllowed(config.allow_mail_domains)
      THEN config.value.kind = "list" /\ config.value.value = <<"*">>
      ELSE /\ config.value.kind = "list"
           /\ Len(config.value.value) = Len(Entries(config.allow_mail_domains))
           /\ \A i \in 1..Len(config.value.value) :
                LET e == lower(Entries(config.allow_mail_domains)[i])
                IN config.value.value[i] = IF startswith(e, "@") THEN e ELSE "@" \o e

\* ---- C22 ----
\* C22: whenever a call of init_agent() returns normally, the agent is set,
\* so that an invoke_agent() the same caller makes next is not refused as
\* not initialized; also for a caller whose call overlaps another caller's
\* init_agent() that is still starting.
C22_InitReturnMeansAgent ==
  (impl = "gradio" /\ lastEvent.op = "init" /\ lastEvent.outcome \in {"ok", "already"})
    => agent # NoAgent

\* ---- C23 ----
\* C23: if a shutdown() runs to completion while an init() call is still
\* polling for the session and the catalog, that call eventually returns or
\* raises.  Stated for servers that expose tools.
C23_InitEndsAfterShutdown ==
  (/\ impl = "gradio"
   /\ server_tools[CERM_MCP_SERVER_NAME] # <<>>
   /\ lastEvent = Ev("shutdown", "ok")
   /\ InitPending)
    ~> ~InitPending

\* ---- one caller ----
\* A caller that awaits each call of init_agent, invoke_agent and
\* shutdown_agent before it makes the next one; the session_runner tasks
\* run beside it.
OneCallerNext ==
  \/ calls = EmptyBag /\ G_InitCall
  \/ \E p \in Suspended : G_InitPoll(p)
  \/ calls = EmptyBag /\ G_ShutdownCall
  \/ \E p \in Suspended : G_ShutdownResume(p)
  \/ \E r \in Tasks : RunnerStart(r)
  \/ \E r \in Tasks : RunnerOpenLocal(r)
  \/ \E r \in Tasks : RunnerOpenM365(r)
  \/ \E r \in Tasks : RunnerLoadLocal(r)
  \/ \E r \in Tasks : RunnerLoadM365(r)
  \/ \E r \in Tasks : RunnerWake(r)
  \/ \E r \in Tasks : RunnerClose(r)
  \/ calls = EmptyBag /\ InvokeCall
  \/ \E p \in Suspended : InvokeReturn(p)
  \/ calls = EmptyBag /\ S_InitCall
  \/ \E p \in Suspended : S_InitOpen(p)
  \/ \E p \in Suspended : S_InitLoad(p)
  \/ calls = EmptyBag /\ S_ShutdownCall
  \/ \E p \in Suspended : S_ShutdownClose(p)

OneCallerSpec == Init /\ [][OneCallerNext]_vars

LoaderServers == IF impl = "gradio"
                   THEN <<CERM_MCP_SERVER_NAME, CERM_AZURE_SERVER_NAME>>
                   ELSE <<CERM_MCP_SERVER_NAME>>

\* a call of load_tools(): the server it is at, its own sessions, its local
\* list `tools`, an exception on its way out of the with block, the outcome
LoaderIdle ==
  [pc |-> "idle", at |-> 0,
   sessions |-> [name \in {CERM_MCP_SERVER_NAME, CERM_AZURE_SERVER_NAME} |-> "none"],
   tools |-> <<>>, exc |-> FALSE, outcome |-> "none"]

\* asyncio.run(load_tools()) of render_tools, up to the first __aenter__
LoaderCall ==
  /\ loader.pc = "idle"
  /\ loader' = [LoaderIdle EXCEPT !.pc = "enter", !.at = 1]
  /\ UNCHANGED <<lifecycle, turn, orders, config, auth, classifier>>

\* `async with mcp_client.session(name) as session`: __aenter__ returns, or
\* raises and ends the call
LoaderEnter ==
  /\ loader.pc = "enter"
  /\ \E ok \in OpenOutcomes(LoaderServers[loader.at]) :
       loader' = IF ok
                   THEN [loader EXCEPT !.pc = "load",
                                       !.sessions[LoaderServers[loader.at]] = "open"]
                   ELSE [loader EXCEPT !.pc = "done", !.outcome = "raised"]
  /\ UNCHANGED <<lifecycle, turn, orders, config, auth, classifier>>

\* the body of the with block without its exit on an exception
LoaderLoad_LeavesOnError ==
  /\ loader.pc = "load"
  /\ \E ok \in BOOLEAN :
       loader' = IF ok
                   THEN [loader EXCEPT !.pc = "exit",
                                       !.tools = @ \o server_tools[LoaderServers[loader.at]]]
                   ELSE [loader EXCEPT !.pc = "done", !.outcome = "raised"]
  /\ UNCHANGED <<lifecycle, turn, orders, config, auth, classifier>>

\* the body of the with block: load_mcp_tools(session) returns the server's
\* tools, which go to the local list, or raises; both lead to __aexit__
LoaderLoad ==
  /\ loader.pc = "load"
  /\ \E ok \in BOOLEAN :
       loader' = IF ok
                   THEN [loader EXCEPT !.pc = "exit",
                                       !.tools = @ \o server_tools[LoaderServers[loader.at]]]
                   ELSE [loader EXCEPT !.pc = "exit", !.exc = TRUE]
  /\ UNCHANGED <<lifecycle, turn, orders, config, auth, classifier>>

\* __aexit__ closes the session; then the exception goes on, the next
\* server is entered, or the list is returned
LoaderExit ==
  /\ loader.pc = "exit"
  /\ LET closed == [loader EXCEPT !.sessions[LoaderServers[loader.at]] = "closed"]
     IN loader' = IF loader.exc
                    THEN [closed EXCEPT !.pc = "done", !.outcome = "raised"]
                    ELSE IF loader.at < Len(LoaderServers)
                      THEN [closed EXCEPT !.pc = "enter", !.at = loader.at + 1]
                      ELSE [closed EXCEPT !.pc = "done", !.outcome = "returned"]
  /\ UNCHANGED <<lifecycle, turn, orders, config, auth, classifier>>

LoaderInit ==
  /\ AtImport
  /\ turn = NoTurn
  /\ orders = NoOrders
  /\ config = NoCall
  /\ auth = NoCall
  /\ classifier = NoCall
  /\ loader = LoaderIdle

\* load_tools() beside the lifecycle calls of one caller
LoaderNext ==
  \/ OneCallerNext
  \/ LoaderCall
  \/ LoaderEnter
  \/ LoaderLoad
  \/ LoaderExit

LoaderSpec == LoaderInit /\ [][LoaderNext]_vars

\* ---- C25 ----
LoaderOpen == {name \in DOMAIN loader.sessions : loader.sessions[name] = "open"}

Forwarding == turn.pc \in {"init", "invoke"}

\* C26: with an empty UI history the stored conversation state is dropped
\* and the list forwarded to the agent is the new user message alone,
\* whatever state was passed in; with a history and a non-empty stored
\* state it is the stored state followed by the new user message.
C26_EmptyHistoryDropsState ==
  Forwarding =>
    /\ turn.history = <<>> => turn.messages = <<HumanMessage(turn.message)>>
    /\ (turn.history # <<>> /\ turn.conversation_state # <<>>) =>
         turn.messages = turn.conversation_state \o <<HumanMessage(turn.message)>>

\* a turn called with an empty history and a stored state of four messages
\* is about to invoke the agent
C26_Witness ==
  /\ turn.pc = "invoke"
  /\ turn.history = <<>>
  /\ Len(turn.conversation_state) = 4
  /\ Len(turn.messages) = 1

\* ---- C27 ----
\* the entries of the history that the conversion keeps
Forwardable(msg) ==
  /\ msg.role \in {"user", "assistant"}
  /\ msg.content # ""
  /\ ~(msg.role = "assistant" /\ msg.metadata # NoMeta)

\* C27: the conversion of the history keeps, in their order, exactly the
\* entries of role user or assistant whose content is not empty and which
\* are not assistant entries with metadata, each as a message of its role
\* with its content; tool and thought entries are not forwarded.
C27_HistoryKeepsPlainEntries ==
  (Forwarding /\ turn.history # <<>> /\ turn.conversation_state = <<>>) =>
    LET kept == SelectSeq(turn.history, Forwardable)
    IN /\ Len(turn.messages) = Len(kept) + 1
       /\ \A i \in 1..Len(kept) :
            /\ turn.messages[i].content = kept[i].content
            /\ turn.messages[i].type = (IF kept[i].role = "user" THEN "human" ELSE "ai")
       /\ \A i \in 1..Len(kept) : turn.messages[i].content # ToolEntry.content

\* a history of five entries, a tool entry, a system entry and an empty
\* one among them, was converted with no stored state: two are forwarded
C27_Witness ==
  /\ turn.pc = "invoke"
  /\ turn.conversation_state = <<>>
  /\ Len(turn.history) = 5
  /\ turn.history[2] = ToolEntry
  /\ Len(turn.messages) = 3

\* ---- accounts and tokens ----
\* src/m365-mcp/src/m365_mcp/auth.py

\* an entry of app.get_accounts(); NoAccount stands for None
MsalAccount(id, username) == [home_account_id |-> id, username |-> username]
NoAccount == MsalAccount("", "")
Ann == MsalAccount("id1", "Ann@x.com")
Bob == MsalAccount("id2", "bob@y.org")
\* an account whose id reads like the user name of another
Carl == MsalAccount("ann@x.com", "carl@z.net")
AccountPool == {Ann, Bob, Carl}
AccountChoices == {<<>>, <<Ann>>, <<Bob, Ann>>, <<Ann, Carl>>, <<Bob, Carl, Ann>>}
\* the account_id argument; "" stands for None
AccountIdChoices == {"", "id1", "id2", "ANN@X.COM", "ann@x.com", "nobody"}

\* what the acquire_token_* calls return: None, a dict with an
\* access_token (and the preferred_username of its id_token_claims, ""
\* when it has none), or a dict with an error
NoResult == [kind |-> "none", preferred_username |-> ""]
TokenResult(preferred_username) == [kind |-> "token", preferred_username |-> preferred_username]
ErrorResult == [kind |-> "error", preferred_username |-> ""]

\* the account-metadata file: a dict from account ids to dicts
NoEntries == [id \in {} |-> [account_type |-> ""]]
TypeEntry(account_type) == [account_type |-> account_type]
OtherEntry == [seen |-> "y"]
MetadataChoices ==
  {NoEntries,
   [id \in {"id1"} |-> TypeEntry("personal")],
   [id \in {"id2"} |-> OtherEntry],
   [id \in {"id1", "id2"} |-> IF id = "id1" THEN TypeEntry("work_school") ELSE OtherEntry]}

\* next(a for a in accounts if ...), None when there is none
FirstAccount(accounts, Matches(_)) ==
  IF \E i \in 1..Len(accounts) : Matches(accounts[i])
    THEN accounts[CHOOSE i \in 1..Len(accounts) :
                    /\ Matches(accounts[i])
                    /\ \A j \in 1..(i - 1) : ~Matches(accounts[j])]
    ELSE NoAccount

\* lines 31-50
select_account(accounts, result, fallback) ==
  IF fallback # NoAccount THEN fallback
  ELSE LET preferred_username == result.preferred_username
           Named(a) == lower(a.username) = lower(preferred_username)
       IN IF preferred_username # "" /\ FirstAccount(accounts, Named) # NoAccount
            THEN FirstAccount(accounts, Named)
            ELSE IF accounts # <<>> THEN accounts[1] ELSE NoAccount

\* what _check_upn_domain(username) of m365_mcp.account_type may do: return
\* a type, return nothing, or raise
CheckUpnDomainOutcomes == {"personal", "work_school", "", "raise"}

\* the dict after lines 115-117
WithType(metadata, account_id, account_type) ==
  [id \in DOMAIN metadata \cup {account_id} |->
     IF id # account_id THEN metadata[id]
     ELSE IF id \in DOMAIN metadata
       THEN [k \in DOMAIN metadata[id] \cup {"account_type"} |->
               IF k = "account_type" THEN account_type ELSE metadata[id][k]]
       ELSE TypeEntry(account_type)]

TypeOutcome(value, metadata, detected, written) ==
  [value |-> value, metadata |-> metadata, detected |-> detected, written |-> written]

\* lines 88-126 with a detection that persists whatever it is given
get_account_type_StoresAnything(metadata, account_id, detection, write_ok) ==
  IF account_id \in DOMAIN metadata /\ "account_type" \in DOMAIN metadata[account_id]
    THEN TypeOutcome(metadata[account_id].account_type, metadata, FALSE, FALSE)
  ELSE IF detection = "raise" THEN TypeOutcome("unknown", metadata, TRUE, FALSE)
  ELSE IF ~write_ok THEN TypeOutcome("unknown", metadata, TRUE, FALSE)
  ELSE TypeOutcome(IF detection = "" THEN "unknown" ELSE detection,
                   WithType(metadata, account_id, IF detection = "" THEN "unknown" ELSE detection),
                   TRUE, TRUE)

\* lines 88-126: the value returned, the metadata file afterwards, whether
\* detection ran and whether the file was written, for what the detection
\* did and whether _write_metadata succeeded
get_account_type(metadata, account_id, detection, write_ok) ==
  IF account_id \in DOMAIN metadata /\ "account_type" \in DOMAIN metadata[account_id]
    THEN TypeOutcome(metadata[account_id].account_type, metadata, FALSE, FALSE)
  ELSE IF detection = "raise" THEN TypeOutcome("unknown", metadata, TRUE, FALSE)
  ELSE IF detection = "" THEN TypeOutcome("unknown", metadata, TRUE, FALSE)
  ELSE IF ~write_ok THEN TypeOutcome("unknown", metadata, TRUE, FALSE)
  ELSE TypeOutcome(detection, WithType(metadata, account_id, detection), TRUE, TRUE)

\* the module before a call: the accounts of the cached app, the token
\* cache file (the accounts it holds) and the account-metadata file
AuthIdle(accounts, cache_file, metadata) ==
  [pc |-> "idle", op |-> "", accounts |-> accounts, cache_file |-> cache_file,
   metadata |-> metadata, account_id |-> "", account |-> NoAccount,
   silent |-> NoResult, flow |-> FALSE, result |-> NoResult, changed |-> FALSE,
   cache_written |-> FALSE, before |-> metadata,
   type |-> TypeOutcome("", metadata, FALSE, FALSE),
   outcome |-> "none"]

AuthInit ==
  /\ Elsewhere
  /\ config = NoCall
  /\ loader = NoCall
  /\ classifier = NoCall
  /\ \E accounts \in AccountChoices, metadata \in MetadataChoices :
       auth = AuthIdle(accounts, accounts, metadata)

\* lines 185-217: get_app(), which raises without M365_MCP_CLIENT_ID, and
\* the choice of the account
GetTokenCall ==
  /\ auth.pc = "idle"
  /\ \E account_id \in AccountIdChoices, client_id \in BOOLEAN :
       LET accounts == auth.accounts
           ById(a) == a.home_account_id = account_id
           ByName(a) == lower(a.username) = lower(account_id)
           account == IF account_id # ""
                        THEN IF FirstAccount(accounts, ById) # NoAccount
                               THEN FirstAccount(accounts, ById)
                               ELSE FirstAccount(accounts, ByName)
                        ELSE IF accounts # <<>> THEN accounts[1] ELSE NoAccount
       IN auth' = IF client_id
                    THEN [auth EXCEPT !.pc = "silent", !.op = "get_token",
                                      !.account_id = account_id, !.account = account]
                    ELSE [auth EXCEPT !.pc = "done", !.op = "get_token",
                                      !.account_id = account_id, !.outcome = "raised"]
  /\ UNCHANGED <<lifecycle, turn, orders, config, loader, classifier>>

\* lines 219-240: app.acquire_token_silent; anything but a dict with an
\* access_token and no error counts as no result
GetTokenSilent ==
  /\ auth.pc = "silent"
  /\ \E silent \in {NoResult, ErrorResult, TokenResult("")}
                     \cup {TokenResult(a.username) : a \in AccountPool},
        refreshed \in BOOLEAN :
       /\ silent.kind = "token" \/ ~refreshed
       /\ auth' = [auth EXCEPT
                     !.silent = silent,
                     !.changed = refreshed,
                     !.result = IF silent.kind = "token" THEN silent ELSE NoResult,
                     !.pc = IF silent.kind = "token" THEN "finish" ELSE "flow",
                     !.account = IF silent.kind = "token"
                                   THEN select_account(auth.accounts, silent, auth.account)
                                   ELSE auth.account]
  /\ UNCHANGED <<lifecycle, turn, orders, config, loader, classifier>>

\* lines 242-257: the device flow.  It raises when no code was issued;
\* otherwise it blocks until the sign-in of some user `who`, which adds the
\* account to the app's cache, or until an error.
GetTokenDeviceFlow ==
  /\ auth.pc = "flow"
  /\ \/ auth' = [auth EXCEPT !.pc = "done", !.flow = TRUE, !.outcome = "raised"]
     \/ \E who \in AccountPool :
          LET known == \E i \in 1..Len(auth.accounts) : auth.accounts[i] = who
              accounts == IF known THEN auth.accounts ELSE Append(auth.accounts, who)
              result == TokenResult(who.username)
          IN auth' = [auth EXCEPT !.pc = "finish", !.flow = TRUE, !.result = result,
                                  !.accounts = accounts, !.changed = TRUE,
                                  !.account = select_account(accounts, result, auth.account)]
     \/ auth' = [auth EXCEPT !.pc = "finish", !.flow = TRUE, !.result = ErrorResult,
                             !.account = select_account(auth.accounts, ErrorResult, auth.account)]
  /\ UNCHANGED <<lifecycle, turn, orders, config, loader, classifier>>

\* lines 259-270 with the test for an error moved behind the writes
GetTokenFinish_WritesFirst ==
  /\ auth.pc = "finish"
  /\ \E detection \in CheckUpnDomainOutcomes, write_ok \in BOOLEAN :
       LET type == IF auth.account # NoAccount
                     THEN get_account_type(auth.metadata, auth.account.home_account_id,
                                           detection, write_ok)
                     ELSE TypeOutcome("", auth.metadata, FALSE, FALSE)
       IN auth' = [auth EXCEPT
                     !.pc = "done",
                     !.outcome = IF auth.result.kind = "error" THEN "raised" ELSE "returned",
                     !.cache_file = IF auth.changed THEN auth.accounts ELSE @,
                     !.cache_written = auth.changed,
                     !.changed = FALSE,
                     !.type = type,
                     !.metadata = type.metadata]
  /\ UNCHANGED <<lifecycle, turn, orders, config, loader, classifier>>

\* lines 259-270: an error in the result raises; otherwise the token cache
\* is written when its state has changed, the type of the account is
\* looked up or detected, and the access token is returned
GetTokenFinish ==
  /\ auth.pc = "finish"
  /\ IF auth.result.kind = "error"
       THEN auth' = [auth EXCEPT !.pc = "done", !.outcome = "raised"]
       ELSE \E detection \in CheckUpnDomainOutcomes, write_ok \in BOOLEAN :
              LET type == IF auth.account # NoAccount
                            THEN get_account_type(auth.metadata, auth.account.home_account_id,
                                                  detection, write_ok)
                            ELSE TypeOutcome("", auth.metadata, FALSE, FALSE)
              IN auth' = [auth EXCEPT
                            !.pc = "done",
                            !.outcome = "returned",
                            !.cache_file = IF auth.changed THEN auth.accounts ELSE @,
                            !.cache_written = auth.changed,
                            !.changed = FALSE,
                            !.type = type,
                            !.metadata = type.metadata]
  /\ UNCHANGED <<lifecycle, turn, orders, config, loader, classifier>>

\* a call of _get_account_type(account_id, username) by itself, as
\* authenticate_new_account makes it (lines 349-350)
GetAccountTypeCall ==
  /\ auth.pc = "idle"
  /\ \E a \in AccountPool, detection \in CheckUpnDomainOutcomes, write_ok \in BOOLEAN :
       LET type == get_account_type(auth.metadata, a.home_account_id, detection, write_ok)
       IN auth' = [auth EXCEPT !.pc = "done", !.op = "get_account_type",
                               !.account = a, !.type = type,
                               !.metadata = type.metadata, !.outcome = "returned"]
  /\ UNCHANGED <<lifecycle, turn, orders, config, loader, classifier>>

AuthNext ==
  \/ GetTokenCall
  \/ GetTokenSilent
  \/ GetTokenDeviceFlow
  \/ GetTokenFinish
  \/ GetAccountTypeCall

AuthSpec == AuthInit /\ [][AuthNext]_vars

\* ---- C28 ----
\* C28: get_token(account_id) takes the cached account whose home_account_id
\* is account_id, else the one whose username is account_id ignoring case,
\* and with no account_id the first cached account; the device flow starts
\* only after the silent acquisition returned nothing or an error; and when
\* the final result carries an error the call raises with the token cache
\* file and the account-metadata file not written.
C28_GetTokenSelectsAndRaises ==
  LET accounts == auth.accounts
      Ids == {accounts[i].home_account_id : i \in 1..Len(accounts)}
      Names == {lower(accounts[i].username) : i \in 1..Len(accounts)}
  IN /\ (auth.pc = "silent" /\ auth.account_id # "" /\ auth.account_id \in Ids) =>
          auth.account.home_account_id = auth.account_id
     /\ (auth.pc = "silent" /\ auth.account_id # "" /\ auth.account_id \notin Ids
           /\ lower(auth.account_id) \in Names) =>
          /\ auth.account # NoAccount
          /\ lower(auth.account.username) = lower(auth.account_id)
     /\ (auth.pc = "silent" /\ auth.account_id = "" /\ accounts # <<>>) =>
          auth.account = accounts[1]
     /\ (auth.pc # "none" /\ auth.flow) => auth.silent.kind \in {"none", "error"}
     /\ (auth.pc = "done" /\ auth.op = "get_token" /\ auth.result.kind = "error") =>
          /\ auth.outcome = "raised"
          /\ ~auth.cache_written
          /\ ~auth.type.written
          /\ auth.metadata = auth.before

\* the device flow of a call for a user name in other case ended in an
\* error after a silent acquisition that returned an error; the call raised
C28_Witness ==
  /\ auth.pc = "done"
  /\ auth.op = "get_token"
  /\ auth.account_id = "ANN@X.COM"
  /\ auth.account = Ann
  /\ auth.silent = ErrorResult
  /\ auth.flow
  /\ auth.result = ErrorResult
  /\ auth.outcome = "raised"

Variants == {"src", "mcp-server"}
\* the categories of classification.json, in the order of the file
CategoryChoices == {<<"Order", "Price Request">>, <<"Complaint", "Order", "ORDER">>}
MessageChoices == {"", " \n ", "Please send 3 boxes", " where is my parcel?\n", "RE: invoice"}

Blank == Whitespace \cup {"\n", "\r"}
\* s.strip(chars); str.strip() is strip_of(s, Blank)
strip_of(s, chars) ==
  LET kept == {i \in 1..Len(s) : Char(s, i) \notin chars}
  IN IF kept = {} THEN ""
     ELSE SubSeq(s, CHOOSE i \in kept : \A j \in kept : i <= j,
                    CHOOSE i \in kept : \A j \in kept : j <= i)

\* s.splitlines(): the pieces between line ends, without a last empty one
splitlines(s) ==
  IF s = "" THEN <<>>
  ELSE LET pieces == split(s, "\n")
       IN IF pieces[Len(pieces)] = "" THEN SubSeq(pieces, 1, Len(pieces) - 1) ELSE pieces

\* the characters of line.strip(...) at line 113
Backquote == SubSeq("`'", 1, 1)
QuoteChars == {Backquote, "\"", "'", " "}

\* lines 82-83
normalize(text) == lower(strip_of(text, Blank))

\* what json.loads gives: a dict of strings, a list of strings and dicts,
\* another value, or nothing when the text is not JSON
NoKeys == [k \in {} |-> ""]
Json(kind, str, dict, list) == [kind |-> kind, str |-> str, dict |-> dict, list |-> list]
NotJson == Json("none", "", NoKeys, <<>>)
JsonStr(s) == Json("str", s, NoKeys, <<>>)
JsonDict(d) == Json("dict", "", d, <<>>)
JsonList(l) == Json("list", "", NoKeys, l)

\* what the model answers: the content of its message and what json.loads
\* makes of the stripped content
Answer(content, parsed) == [content |-> content, parsed |-> parsed]
Answers ==
  <<Answer("", NotJson),
    Answer(" \n", NotJson),
    Answer("Order", NotJson),
    Answer("  price request \n", NotJson),
    Answer("\"Order\"", JsonStr("Order")),
    Answer("'complaint'", NotJson),
    Answer(Backquote \o "Order" \o Backquote, NotJson),
    Answer("Spam", NotJson),
    Answer("It is spam.\norder\n", NotJson),
    Answer("This looks like a COMPLAINT about an order.", NotJson),
    Answer("{\"category\": \"order\", \"reason\": \"asks for goods\"}",
           JsonDict([k \in {"category", "reason"} |->
                       IF k = "category" THEN "order" ELSE "asks for goods"])),
    Answer("{\"label\": \"Spam\"}", JsonDict([k \in {"label"} |-> "Spam"])),
    Answer("{\"category\": \"none\", \"result\": \"Price Request\"}",
           JsonDict([k \in {"category", "result"} |->
                       IF k = "category" THEN "none" ELSE "Price Request"])),
    Answer("[\"spam\", {\"label\": \"Complaint\"}]",
           JsonList(<<JsonStr("spam"), JsonDict([k \in {"label"} |-> "Complaint"])>>)),
    Answer("[{\"category\": \"\", \"result\": \"ORDER \"}]",
           JsonList(<<JsonDict([k \in {"category", "result"} |->
                                  IF k = "category" THEN "" ELSE "ORDER "])>>)),
    Answer("[]", JsonList(<<>>))>>

\* what the structured output of the mcp-server names as category
StructuredChoices == {"Order", "order", "Spam", ""}

\* lines 64-79, for a message with a str content
extract_response_text(raw) == strip_of(raw.content, Blank)

\* the least index of 1..n at which Test holds, 0 when there is none
FirstIndex(n, Test(_)) ==
  IF \E i \in 1..n : Test(i)
    THEN CHOOSE i \in 1..n : Test(i) /\ \A j \in 1..(i - 1) : ~Test(j)
    ELSE 0

\* lines 86-123
pick_category(response_text, parsed, categories) ==
  LET InMap(value) == \E i \in 1..Len(categories) : normalize(categories[i]) = normalize(value)
      \* normalized_map[_normalize(value)]: a later category replaces an
      \* earlier one of the same normalized name
      Mapped(value) ==
        categories[CHOOSE i \in 1..Len(categories) :
                     /\ normalize(categories[i]) = normalize(value)
                     /\ \A j \in (i + 1)..Len(categories) :
                          normalize(categories[j]) # normalize(value)]
      Keys == <<"category", "label", "result">>
      Get(d, key) == IF key \in DOMAIN d THEN d[key] ELSE ""
      KeyHit(k) == InMap(Get(parsed.dict, Keys[k])) /\ Keys[k] \in DOMAIN parsed.dict
      FirstValue(d) == IF Get(d, "category") # "" THEN Get(d, "category")
                       ELSE IF Get(d, "label") # "" THEN Get(d, "label")
                       ELSE Get(d, "result")
      ItemValue(item) == IF item.kind = "str" THEN item.str ELSE FirstValue(item.dict)
      ItemHit(i) == LET item == parsed.list[i]
                    IN /\ item.kind \in {"str", "dict"}
                       /\ item.kind = "dict" => FirstValue(item.dict) # ""
                       /\ InMap(ItemValue(item))
      lines == splitlines(response_text)
      Candidate(line) == normalize(strip_of(line, QuoteChars))
      LineHit(i) == InMap(Candidate(lines[i]))
      lowered == lower(response_text)
      Named(i) == Contains(lowered, lower(categories[i]))
      k == IF parsed.kind = "dict" THEN FirstIndex(Len(Keys), KeyHit) ELSE 0
      l == IF parsed.kind = "list" THEN FirstIndex(Len(parsed.list), ItemHit) ELSE 0
      m == FirstIndex(Len(lines), LineHit)
      c == FirstIndex(Len(categories), Named)
  IN IF response_text = "" THEN "Other"
     ELSE IF k # 0 THEN Mapped(parsed.dict[Keys[k]])
     ELSE IF l # 0 THEN Mapped(ItemValue(parsed.list[l]))
     ELSE IF m # 0 THEN Mapped(Candidate(lines[m]))
     ELSE IF c # 0 THEN categories[c]
     ELSE "Other"

\* a call of classify_message: the implementation, the configured
\* categories, the message, the number of model calls, the answer and how
\* the call ended
NewClassify(variant, categories, message) ==
  [pc |-> "called", variant |-> variant, categories |-> categories,
   message |-> message, invoked |-> 0, failed |-> FALSE, answer |-> "",
   outcome |-> "none", value |-> ""]

ClassifyInit ==
  /\ Elsewhere
  /\ config = NoCall
  /\ loader = NoCall
  /\ auth = NoCall
  /\ \E variant \in Variants, categories \in CategoryChoices, message \in MessageChoices :
       classifier = NewClassify(variant, categories, message)

\* src lines 131-148, mcp-server lines 17-44: the message is stripped; an
\* empty one is answered with "Other", another one goes to the model
ClassifyCall ==
  /\ classifier.pc = "called"
  /\ classifier' = IF strip_of(classifier.message, Blank) = ""
                     THEN [classifier EXCEPT !.pc = "done", !.outcome = "returned",
                                             !.value = "Other"]
                     ELSE [classifier EXCEPT !.pc = "model",
                                             !.message = strip_of(@, Blank)]
  /\ UNCHANGED <<lifecycle, turn, orders, config, loader, auth>>

\* src lines 150-161: the model call, whose exception is caught, and the
\* choice of the category from its answer
ClassifyInvoke ==
  /\ classifier.pc = "model"
  /\ classifier.variant = "src"
  /\ \/ classifier' = [classifier EXCEPT !.pc = "done", !.invoked = @ + 1, !.failed = TRUE,
                                         !.outcome = "returned", !.value = "Other"]
     \/ \E i \in 1..Len(Answers) :
          LET response_text == extract_response_text(Answers[i])
          IN classifier' = [classifier EXCEPT
                              !.pc = "done", !.invoked = @ + 1,
                              !.answer = response_text,
                              !.outcome = "returned",
                              !.value = pick_category(response_text, Answers[i].parsed,
                                                      classifier.categories)]
  /\ UNCHANGED <<lifecycle, turn, orders, config, loader, auth>>

\* mcp-server lines 44-47: the model call with structured output, outside
\* any try block, and the category of the validated answer as it is
ClassifyStructured ==
  /\ classifier.pc = "model"
  /\ classifier.variant = "mcp-server"
  /\ \/ classifier' = [classifier EXCEPT !.pc = "done", !.invoked = @ + 1, !.failed = TRUE,
                                         !.outcome = "raised"]
     \/ \E category \in StructuredChoices :
          classifier' = [classifier EXCEPT !.pc = "done", !.invoked = @ + 1,
                                           !.answer = category,
                                           !.outcome = "returned", !.value = category]
  /\ UNCHANGED <<lifecycle, turn, orders, config, loader, auth>>

ClassifyNext ==
  \/ ClassifyCall
  \/ ClassifyInvoke
  \/ ClassifyStructured

ClassifySpec == ClassifyInit /\ [][ClassifyNext]_vars

\* ---- C30 ----
\* C30: classify_message never raises and returns a configured category in
\* its configured spelling or "Other": "Other" without a model call for an
\* empty or blank message, at most one model call otherwise, and "Other"
\* when the model call fails or its answer names no configured category.
C30_ClassifyReturnsCategory ==
  LET categories == classifier.categories
      IsCategory(value) == \E i \in 1..Len(categories) : categories[i] = value
      NamesOne == \E i \in 1..Len(categories) :
                    Contains(lower(classifier.answer), lower(categories[i]))
  IN classifier.pc # "none" =>
       /\ classifier.outcome # "raised"
       /\ classifier.invoked <= 1
       /\ classifier.pc = "done" =>
            /\ IsCategory(classifier.value) \/ classifier.value = "Other"
            /\ strip_of(classifier.message, Blank) = "" =>
                 classifier.invoked = 0 /\ classifier.value = "Other"
            /\ classifier.failed => classifier.value = "Other"
            /\ (classifier.invoked = 1 /\ ~NamesOne) => classifier.value = "Other"

====
